---- MODULE Spec2Model ----
(***************************************************************************)
(* typescript-language-server: the bridge between an LSP client and a      *)
(* tsserver child process.                                                 *)
(*                                                                         *)
(*   TspClient   (tsp-client.ts)  seq counter, table of deferreds, wire    *)
(*   LspServer   (lsp-server.ts)  document handlers, diagnostics loop      *)
(*   LspDocument / LspDocuments (document.ts)  the open-document mirror    *)
(*                                                                         *)
(* Node runs every handler to completion on one thread, so one action is   *)
(* one handler (one macrotask); the continuation of an await is a          *)
(* microtask and is queued in `microtasks`.                                *)
(***************************************************************************)
EXTENDS Integers, Sequences, FiniteSets, TLC

\* ------------------------------------------------------------------ bounds
\* Outbound messages per session (the guard that caps the seq counter).
MaxSeq == 5
\* Outbound messages of the session that follows the documents' life cycle.
MaxLifeSeq == 7
\* Outbound messages of the session in which reads interrupt the diagnostics.
MaxReadSeq == 6
\* Outbound messages of the session that follows tsserver's stdout.
MaxWireSeq == 4
\* Outbound messages of the session that follows the mirror's access order.
MaxOrderSeq == 6
\* Outbound messages of the session that follows the diagnostics' publication.
MaxDiagSeq == 5
\* Outbound messages of the sessions of LSP requests and commands.
MaxCallSeq == 5
\* LSP requests per session.
MaxCalls == 2
\* Commands attached to a code action.
MaxCommands == 2
\* Completion requests per session.
MaxCompletions == 1
\* Longest buffer an edit may produce.
MaxTextLen == 3

\* ------------------------------------------------------- program constants
\* debounce(() => this.doRequestDiagnostics(), 200)
DebounceWait == 200

\* The clock advances in half debounce periods.
Quantum == DebounceWait \div 2

VARIABLES
    started,                 \* LspServer.tspClient exists and start() has run
    alive,                   \* the tsserver child process is running
    seq,                     \* TspClient.seq
    wire,                    \* lines written to the child's stdin, in order
    deferreds,               \* TspClient.deferreds: seq -> index into promises
    promises,                \* every future request() has returned, in call order
    cancelFiles,             \* cancellation-pipe files that exist: set of seq
    forwarded,               \* events handed to options.onEvent
    log,                     \* options.logger: [on, last], last being the decoded message
                             \* processMessage logged last, kept when the logger records
    uncaught,                \* an exception has escaped an event listener
    answered,                \* the requests named by the request_seq of a response or a
                             \* requestCompleted event that has been processed
    diagnosticsTokenSource,  \* LspServer.diagnosticsTokenSource: 0 or a promise index
    microtasks,              \* queued continuations of `await request(geterr)`
    timer,                   \* p-debounce's timer: [armed, left]
    elapsed,                 \* time since the last requestDiagnostics() call
    burst,                   \* [open, calls, geterrs, after]: the calls of the running
                             \* burst (2 for two or more), the geterrs sent since the last
                             \* call, the seq of the last line written before that call
    geterrElapsed,           \* the values `elapsed` had when a geterr was sent
    documents,               \* LspDocuments.documents: path -> [text, version]
    files,                   \* LspDocuments._files
    expectedText,            \* path -> the received edits applied to the opened text
    arrivals,                \* editor notifications so far that wrote to tsserver
    emptyPublishes,          \* path -> publishDiagnostics{uri, []} sent to the client
    lastDidClose,            \* path -> the last didClose: [seen, wasOpen, mark], mark being
                             \* emptyPublishes when it arrived
    lspCalls,                \* the LSP requests handled so far, in arrival order: the
                             \* activation of the async handler and what it returned
    clientRequests,          \* the requests made of the LSP client (applyWorkspaceEdit,
                             \* rename): [call, method, answered, applied]
    buckets,                 \* DiagnosticEventQueue: path -> kind -> the stored list
    published,               \* path -> the diagnostics of the last publishDiagnostics
    accessed,                \* the open paths, the one opened or found by get last
                             \* first (kept apart from _files, for comparison)
    unhandled                \* the rejections no handler was attached for:
                             \* [promise, of], `of` naming the derived promise

vars ==
    << started, alive, seq, wire, deferreds, promises, cancelFiles, forwarded, log,
       uncaught, answered,
       diagnosticsTokenSource, microtasks, timer, elapsed, burst, geterrElapsed,
       documents, files, expectedText, arrivals, emptyPublishes, lastDidClose,
       lspCalls, clientRequests, buckets, published, accessed,
       unhandled >>

\* The mutable state as one record, so that a handler is the composition of
\* the calls it makes.
State ==
    [ started |-> started, alive |-> alive, seq |-> seq, wire |-> wire,
      deferreds |-> deferreds, promises |-> promises, cancelFiles |-> cancelFiles,
      forwarded |-> forwarded, log |-> log, uncaught |-> uncaught, answered |-> answered,
      diagnosticsTokenSource |-> diagnosticsTokenSource,
      microtasks |-> microtasks, timer |-> timer, elapsed |-> elapsed,
      burst |-> burst, geterrElapsed |-> geterrElapsed, documents |-> documents,
      files |-> files, expectedText |-> expectedText, arrivals |-> arrivals,
      emptyPublishes |-> emptyPublishes, lastDidClose |-> lastDidClose,
      lspCalls |-> lspCalls, clientRequests |-> clientRequests, buckets |-> buckets,
      published |-> published, accessed |-> accessed, unhandled |-> unhandled ]

Commit(s) ==
    /\ started' = s.started
    /\ alive' = s.alive
    /\ seq' = s.seq
    /\ wire' = s.wire
    /\ deferreds' = s.deferreds
    /\ promises' = s.promises
    /\ cancelFiles' = s.cancelFiles
    /\ forwarded' = s.forwarded
    /\ log' = s.log
    /\ uncaught' = s.uncaught
    /\ answered' = s.answered
    /\ diagnosticsTokenSource' = s.diagnosticsTokenSource
    /\ microtasks' = s.microtasks
    /\ timer' = s.timer
    /\ elapsed' = s.elapsed
    /\ burst' = s.burst
    /\ geterrElapsed' = s.geterrElapsed
    /\ documents' = s.documents
    /\ files' = s.files
    /\ expectedText' = s.expectedText
    /\ arrivals' = s.arrivals
    /\ emptyPublishes' = s.emptyPublishes
    /\ lastDidClose' = s.lastDidClose
    /\ lspCalls' = s.lspCalls
    /\ clientRequests' = s.clientRequests
    /\ buckets' = s.buckets
    /\ published' = s.published
    /\ accessed' = s.accessed
    /\ unhandled' = s.unhandled

\* ------------------------------------------------------------------ inputs
Files == {"f1", "f2"}
\* The three kinds of diagnostic event, in the order their lists are published.
DiagnosticKinds == {"syntaxDiag", "semanticDiag", "suggestionDiag"}
\* The paths of the session that follows the mirror's access order.
Paths == Files \cup {"f3"}
NL == "\n"
NoText == << >>
NoCause == [n |-> 0, j |-> 0]
\* The body of a message that has none.  Of a body the model keeps what the
\* handlers read: for a diagnostic event its file and diagnostics, for a
\* completionInfo response its entries and isMemberCompletion, for the responses that carry file
\* edits their number and whether a rename location comes with them.
NoBody ==
    [ present |-> FALSE, file |-> "", diagnostics |-> << >>, entries |-> << >>,
      edits |-> 0, renameLocation |-> FALSE, message |-> "", details |-> << >>,
      isMemberCompletion |-> FALSE ]
NoMessage ==
    [type |-> "none", event |-> "", request_seq |-> 0, success |-> TRUE, body |-> NoBody]
NoArgs ==
    [ file |-> "", line |-> 0, offset |-> 0, endLine |-> 0, endOffset |-> 0,
      text |-> NoText, files |-> << >>, entryNames |-> << >>, command |-> 0 ]

\* ============================================================== TspClient

\* utils.Deferred: a one-shot completion slot.  `calls` counts the
\* invocations of resolve and reject.
Deferred(operation) ==
    [ operation |-> operation, state |-> "pending", calls |-> 0, request_seq |-> 0,
      body |-> NoBody ]

DeferredResolve(d, message) ==
    IF d.state = "pending"
    THEN [d EXCEPT !.state = "resolved", !.calls = @ + 1,
                   !.request_seq = message.request_seq, !.body = message.body]
    ELSE [d EXCEPT !.calls = @ + 1]

DeferredReject(d, message) ==
    IF d.state = "pending"
    THEN [d EXCEPT !.state = "rejected", !.calls = @ + 1,
                   !.request_seq = message.request_seq, !.body = message.body]
    ELSE [d EXCEPT !.calls = @ + 1]

\* The seq of the requests that carry a cancellation token, wait for their
\* answer and have not been cancelled.
Uncancelled(s) ==
    { s.promises[id].seq :
        id \in { i \in 1..Len(s.promises) :
                    /\ s.promises[i].token /\ ~s.promises[i].cancelled
                    /\ s.promises[i].deferred.state = "pending" } }

\* sendMessage with a counter that only requests advance.
sendMessageRequestsOnly(s, command, notification, args, cause) ==
    LET n == IF notification THEN s.seq ELSE s.seq + 1
    IN  [s EXCEPT !.seq = n,
                  !.wire = Append(@, [seq |-> n, type |-> "request", command |-> command,
                                      notification |-> notification, arguments |-> args,
                                      cause |-> cause, uncancelled |-> Uncancelled(s)])]

\* `cause` and `uncancelled` are not on the wire: they tag the line with the
\* editor notification (and the content change in it) whose handler wrote it,
\* and with the cancellable requests in flight at the moment it was written.
sendMessage(s, command, notification, args, cause) ==
    LET n == s.seq + 1
    IN  [s EXCEPT !.seq = n,
                  !.wire = Append(@, [seq |-> n, type |-> "request", command |-> command,
                                      notification |-> notification, arguments |-> args,
                                      cause |-> cause, uncancelled |-> Uncancelled(s)])]

notify(s, command, args, cause) == sendMessage(s, command, TRUE, args, cause)

\* `awaiter` names the async function suspended on the returned promise.
request(s, command, args, token, awaiter) ==
    LET s1 == sendMessage(s, command, FALSE, args, NoCause)
        seqC == s1.seq
        id == Len(s1.promises) + 1
    IN  [s1 EXCEPT
            !.deferreds = [k \in DOMAIN @ \cup {seqC} |-> IF k = seqC THEN id ELSE @[k]],
            !.promises = Append(@, [ deferred |-> Deferred(command), seq |-> seqC,
                                     token |-> token, cancelled |-> FALSE,
                                     awaiter |-> awaiter ])]

\* The reactions of a promise that has just settled: the awaiting function's
\* continuation is queued, and a resolved request whose cancellation file
\* was written has it unlinked (request.then(() => fs.unlink(...))); of a
\* rejected one the promise that then() returned is rejected, and nothing
\* handles it.
Settled(s, id, success) ==
    [s EXCEPT
        !.microtasks = IF s.promises[id].awaiter # "" THEN Append(@, id) ELSE @,
        !.cancelFiles = IF success THEN @ \ {s.promises[id].seq} ELSE @,
        !.unhandled = IF ~success /\ s.promises[id].cancelled
                      THEN @ \cup {[promise |-> id, of |-> "request.then"]} ELSE @]

\* resolveResponse that resolves whatever the success flag says.
resolveResponseIgnoreSuccess(s, message, request_seq, success) ==
    IF request_seq \in DOMAIN s.deferreds
    THEN LET id == s.deferreds[request_seq]
             s1 == [s EXCEPT
                       !.promises[id].deferred = DeferredResolve(@, message),
                       !.deferreds = [k \in DOMAIN @ \ {request_seq} |-> @[k]]]
         IN  Settled(s1, id, TRUE)
    ELSE s

\* resolveResponse that settles the oldest pending request.
resolveResponseOldest(s, message, request_seq, success) ==
    IF DOMAIN s.deferreds # {}
    THEN LET k == CHOOSE x \in DOMAIN s.deferreds : \A y \in DOMAIN s.deferreds : x <= y
             id == s.deferreds[k]
             s1 == [s EXCEPT
                       !.promises[id].deferred =
                           IF success THEN DeferredResolve(@, message)
                           ELSE DeferredReject(@, message),
                       !.deferreds = [x \in DOMAIN @ \ {k} |-> @[x]]]
         IN  Settled(s1, id, success)
    ELSE s

\* resolveResponse that leaves the entry in the table.
resolveResponseNoDelete(s, message, request_seq, success) ==
    IF request_seq \in DOMAIN s.deferreds
    THEN LET id == s.deferreds[request_seq]
             s1 == [s EXCEPT
                       !.promises[id].deferred =
                           IF success THEN DeferredResolve(@, message)
                           ELSE DeferredReject(@, message)]
         IN  Settled(s1, id, success)
    ELSE s

resolveResponse(s, message, request_seq, success) ==
    IF request_seq \in DOMAIN s.deferreds
    THEN LET id == s.deferreds[request_seq]
             s1 == [s EXCEPT
                       !.promises[id].deferred =
                           IF success THEN DeferredResolve(@, message)
                           ELSE DeferredReject(@, message),
                       !.deferreds = [k \in DOMAIN @ \ {request_seq} |-> @[k]]]
         IN  Settled(s1, id, success)
    ELSE s

\* The seq of the lines written by request().
RequestSeqs(w) == { w[i].seq : i \in { k \in 1..Len(w) : ~w[k].notification } }

isResponse(message) == message.type = "response"
isEvent(message) == message.type = "event"
isRequestCompletedEvent(message) == isEvent(message) /\ message.event = "requestCompleted"

\* DiagnosticEventQueue.updateDiagnostics(kind, event): the list received
\* last is stored for the (file, kind), and the file's three lists are
\* published, syntax first, then semantic, then suggestion.
updateDiagnostics(s, kind, event) ==
    IF ~event.body.present THEN s
    ELSE LET file == event.body.file
             s1 == [s EXCEPT !.buckets[file][kind] = event.body.diagnostics]
         IN  [s1 EXCEPT !.published[file] =
                            s1.buckets[file]["syntaxDiag"]
                                \o s1.buckets[file]["semanticDiag"]
                                \o s1.buckets[file]["suggestionDiag"]]

\* LspServer.onTsEvent, the onEvent the transport is constructed with.
onTsEvent(s, event) ==
    IF event.event \in DiagnosticKinds
    THEN updateDiagnostics(s, event.event, event)
    ELSE s

\* this.logger.log('processMessage', message)
logMessage(s, message) ==
    IF s.log.on THEN [s EXCEPT !.log.last = message] ELSE s

\* processMessage that hands every event to onEvent, requestCompleted too.
processMessageForwardAll(s, message) ==
    IF message.type = "skip" THEN s
    ELSE IF message.type = "malformed" THEN [s EXCEPT !.uncaught = TRUE]
    ELSE LET s1 == logMessage(s, message)
         IN  IF isResponse(message)
             THEN resolveResponse(s1, message, message.request_seq, message.success)
             ELSE IF isEvent(message)
             THEN IF isRequestCompletedEvent(message)
                  THEN onTsEvent([resolveResponse(s1, message, message.request_seq, TRUE)
                                     EXCEPT !.forwarded = @ \cup {message.event}], message)
                  ELSE onTsEvent([s1 EXCEPT !.forwarded = @ \cup {message.event}], message)
             ELSE s1

\* A line of the child's stdout.  A blank line or a Content-Length header is
\* type "skip" and returns early; a line that is no JSON is type "malformed":
\* JSON.parse throws, and neither processMessage nor the 'line' listener that
\* calls it catches.
processMessage(s, message) ==
    IF message.type = "skip" THEN s
    ELSE IF message.type = "malformed" THEN [s EXCEPT !.uncaught = TRUE]
    ELSE LET s1 == logMessage(s, message)
         IN  IF isResponse(message)
             THEN resolveResponse(s1, message, message.request_seq, message.success)
             ELSE IF isEvent(message)
             THEN IF isRequestCompletedEvent(message)
                  THEN resolveResponse(s1, message, message.request_seq, TRUE)
                  ELSE onTsEvent([s1 EXCEPT !.forwarded = @ \cup {message.event}], message)
             ELSE s1

\* token.onCancellationRequested: the listener writes <pipe><seq> for the seq
\* the request was sent with, once; request.then unlinks it at once when the
\* request has already resolved.
cancelToken(s, id) ==
    IF s.promises[id].token /\ ~s.promises[id].cancelled
    THEN [s EXCEPT !.promises[id].cancelled = TRUE,
                   !.cancelFiles = IF s.promises[id].deferred.state = "resolved"
                                   THEN @ ELSE @ \cup {s.promises[id].seq}]
    ELSE s

\* ============================================================ LspDocument

\* vscode-languageserver's TextDocument, which LspDocument wraps: the offsets
\* at which lines start (offset 0, and the offset after every line break);
\* an empty text has no line.
LineStarts(text) ==
    IF Len(text) = 0 THEN {} ELSE {0} \cup {k \in 1..Len(text) : text[k] = NL}

lineCount(text) == Cardinality(LineStarts(text))

\* lineOffsets[line]
LineOffset(text, line) ==
    CHOOSE o \in LineStarts(text) : Cardinality({x \in LineStarts(text) : x < o}) = line

Max2(a, b) == IF a >= b THEN a ELSE b
Min2(a, b) == IF a <= b THEN a ELSE b

positionAt(text, offset) ==
    LET off == Max2(Min2(offset, Len(text)), 0)
    IN  IF LineStarts(text) = {} THEN [line |-> 0, character |-> off]
        ELSE LET line == Cardinality({x \in LineStarts(text) : x <= off}) - 1
             IN  [line |-> line, character |-> off - LineOffset(text, line)]

offsetAt(text, position) ==
    IF position.line >= lineCount(text) THEN Len(text)
    ELSE IF position.line < 0 THEN 0
    ELSE LET lineOffset == LineOffset(text, position.line)
             nextLineOffset == IF position.line + 1 < lineCount(text)
                               THEN LineOffset(text, position.line + 1)
                               ELSE Len(text)
         IN  Max2(Min2(lineOffset + position.character, nextLineOffset), lineOffset)

\* content.substr(from): the rest of the text from a 0-based offset.
Substr(text, from) == SubSeq(text, from + 1, Len(text))
\* content.substr(0, n)
Prefix(text, n) == SubSeq(text, 1, n)

\* applyEdit that drops the character at the end of the range as well.
applyEditOffByOne(doc, version, change) ==
    IF change.hasRange
    THEN LET start == offsetAt(doc.text, change.range.start)
             end == offsetAt(doc.text, change.range.end)
         IN  [text |-> Prefix(doc.text, start) \o change.text \o Substr(doc.text, end + 1),
              version |-> version]
    ELSE [text |-> change.text, version |-> version]

applyEdit(doc, version, change) ==
    IF change.hasRange
    THEN LET start == offsetAt(doc.text, change.range.start)
             end == offsetAt(doc.text, change.range.end)
         IN  [text |-> Prefix(doc.text, start) \o change.text \o Substr(doc.text, end),
              version |-> version]
    ELSE [text |-> change.text, version |-> version]

\* =========================================================== LspDocuments

\* The paths by last access: a path opened or found comes first, a path
\* closed leaves.
Forget(list, file) == SelectSeq(list, LAMBDA x : x # file)
Touch(list, file) == <<file>> \o Forget(list, file)

\* _files.splice(_files.indexOf(file), 1): the first occurrence goes; with
\* no occurrence indexOf is -1 and the last element goes.
Remove(list, file) ==
    LET at == { i \in 1..Len(list) : list[i] = file }
    IN  IF at = {} THEN SubSeq(list, 1, Len(list) - 1)
        ELSE LET i == CHOOSE k \in at : \A j \in at : k <= j
             IN  SubSeq(list, 1, i - 1) \o SubSeq(list, i + 1, Len(list))

\* documents.get that appends the path it finds instead of unshifting it.
getMovesToBack(s, file) ==
    IF file \notin DOMAIN s.documents THEN s
    ELSE [s EXCEPT !.files = Remove(@, file) \o <<file>>,
                   !.accessed = Touch(@, file)]

\* documents.get(file): a hit moves the path to the front of the order.
get(s, file) ==
    IF file \notin DOMAIN s.documents THEN s
    ELSE IF s.files[1] # file
    THEN [s EXCEPT !.files = <<file>> \o Remove(@, file), !.accessed = Touch(@, file)]
    ELSE [s EXCEPT !.accessed = Touch(@, file)]

\* documents.open(file, doc), when it returns true.
open(s, file, doc) ==
    [s EXCEPT !.documents = [f \in DOMAIN @ \cup {file} |-> IF f = file THEN doc ELSE @[f]],
              !.files = <<file>> \o @, !.accessed = Touch(@, file)]

\* documents.close that deletes the document and leaves the order alone.
closeLeavesPath(s, file) ==
    [s EXCEPT !.documents = [f \in DOMAIN @ \ {file} |-> @[f]],
              !.accessed = Forget(@, file)]

\* documents.close(file), when it returns a document.
close(s, file) ==
    [s EXCEPT !.documents = [f \in DOMAIN @ \ {file} |-> @[f]],
              !.files = Remove(@, file), !.accessed = Forget(@, file)]

\* ============================================================== LspServer

Disarmed == [armed |-> FALSE, left |-> 0]

\* p-debounce that keeps a running timer instead of restarting it.
requestDiagnosticsNoRestart(s) ==
    [s EXCEPT !.timer = IF @.armed THEN @ ELSE [armed |-> TRUE, left |-> DebounceWait],
              !.elapsed = 0,
              !.burst = [open |-> TRUE, geterrs |-> 0,
                        calls |-> IF s.timer.armed THEN 2 ELSE 1, after |-> s.seq]]

\* requestDiagnostics(): p-debounce clears its timer and sets it anew.
requestDiagnostics(s) ==
    [s EXCEPT !.timer = [armed |-> TRUE, left |-> DebounceWait],
              !.elapsed = 0,
              !.burst = [open |-> TRUE, geterrs |-> 0,
                        calls |-> IF s.timer.armed THEN 2 ELSE 1, after |-> s.seq]]

\* cancelDiagnostics that forgets the source without cancelling it.
cancelDiagnosticsForgetOnly(s) ==
    [s EXCEPT !.diagnosticsTokenSource = 0]

cancelDiagnostics(s) ==
    IF s.diagnosticsTokenSource # 0
    THEN [cancelToken(s, s.diagnosticsTokenSource) EXCEPT !.diagnosticsTokenSource = 0]
    ELSE s

\* doRequestDiagnostics that lists the path at the front of the order alone.
doRequestDiagnosticsFrontOnly(s) ==
    LET s1 == cancelDiagnostics(s)
        geterrTokenSource == Len(s1.promises) + 1
        s2 == [s1 EXCEPT !.diagnosticsTokenSource = geterrTokenSource]
        s3 == request(s2, "geterr",
                      [NoArgs EXCEPT !.files = SubSeq(s2.files, 1, Min2(1, Len(s2.files)))],
                      TRUE, "doRequestDiagnostics")
    IN  [s3 EXCEPT !.geterrElapsed = @ \cup {s.elapsed},
                   !.burst.geterrs = @ + 1]

\* doRequestDiagnostics up to its await: the geterr lists documents.files as
\* it is when the request is written.
doRequestDiagnostics(s) ==
    LET s1 == cancelDiagnostics(s)
        geterrTokenSource == Len(s1.promises) + 1
        s2 == [s1 EXCEPT !.diagnosticsTokenSource = geterrTokenSource]
        s3 == request(s2, "geterr", [NoArgs EXCEPT !.files = s2.files], TRUE,
                      "doRequestDiagnostics")
    IN  [s3 EXCEPT !.geterrElapsed = @ \cup {s.elapsed},
                   !.burst.geterrs = @ + 1]

\* A `finally` that clears the token source whichever geterr it holds.
doRequestDiagnosticsFinallyClearsAny(s, geterrTokenSource) ==
    [s EXCEPT !.diagnosticsTokenSource = 0,
              !.unhandled =
                  IF s.promises[geterrTokenSource].deferred.state = "rejected"
                  THEN @ \cup {[promise |-> geterrTokenSource, of |-> "requestDiagnostics"]}
                  ELSE @]

\* The `finally` of doRequestDiagnostics, run when the geterr has settled.
\* There is no catch: after a rejected geterr the function's promise is
\* rejected, and with it the promises requestDiagnostics() returned, which
\* no caller keeps.  What the runtime does with a rejection nobody handles
\* (a warning, or the end of the process) is left out.
doRequestDiagnosticsFinally(s, geterrTokenSource) ==
    [s EXCEPT !.diagnosticsTokenSource = IF @ = geterrTokenSource THEN 0 ELSE @,
              !.unhandled =
                  IF s.promises[geterrTokenSource].deferred.state = "rejected"
                  THEN @ \cup {[promise |-> geterrTokenSource, of |-> "requestDiagnostics"]}
                  ELSE @]

\* interuptDiagnostics that runs the read before it cancels the diagnostics.
interuptDiagnosticsReadFirst(s, command, args) ==
    IF s.diagnosticsTokenSource = 0
    THEN request(s, command, args, FALSE, "")
    ELSE requestDiagnostics(cancelDiagnostics(request(s, command, args, FALSE, "")))

\* interuptDiagnostics(f), every f being one tspClient.request(command, args).
interuptDiagnostics(s, command, args) ==
    IF s.diagnosticsTokenSource = 0
    THEN request(s, command, args, FALSE, "")
    ELSE requestDiagnostics(request(cancelDiagnostics(s), command, args, FALSE, ""))

\* ChangeArgs that sends the end of an LSP range as it came, zero-based.
ChangeArgsEndZeroBased(doc, file, change) ==
    IF change.hasRange
    THEN [NoArgs EXCEPT !.file = file,
                        !.line = change.range.start.line + 1,
                        !.offset = change.range.start.character + 1,
                        !.endLine = change.range.end.line,
                        !.endOffset = change.range.end.character,
                        !.text = change.text]
    ELSE LET endPos == positionAt(doc.text, Len(doc.text))
         IN  [NoArgs EXCEPT !.file = file, !.line = 1, !.offset = 1,
                            !.endLine = endPos.line + 1,
                            !.endOffset = endPos.character + 1,
                            !.text = change.text]

ChangeArgs(doc, file, change) ==
    IF change.hasRange
    THEN [NoArgs EXCEPT !.file = file,
                        !.line = change.range.start.line + 1,
                        !.offset = change.range.start.character + 1,
                        !.endLine = change.range.end.line + 1,
                        !.endOffset = change.range.end.character + 1,
                        !.text = change.text]
    ELSE LET endPos == positionAt(doc.text, Len(doc.text))
         IN  [NoArgs EXCEPT !.file = file, !.line = 1, !.offset = 1,
                            !.endLine = endPos.line + 1,
                            !.endOffset = endPos.character + 1,
                            !.text = change.text]

RECURSIVE changeLoopReversed(_, _, _, _, _, _)
\* The loop of didChangeTextDocument taking the content changes last first.
changeLoopReversed(s, file, version, contentChanges, j, n) ==
    IF contentChanges = << >> THEN s
    ELSE LET k == Len(contentChanges)
             change == contentChanges[k]
             s1 == notify(s, "change", ChangeArgs(s.documents[file], file, change),
                          [n |-> n, j |-> j + k - 1])
             s2 == [s1 EXCEPT !.documents[file] = applyEdit(@, version, change)]
         IN  changeLoopReversed(s2, file, version, SubSeq(contentChanges, 1, k - 1), j, n)

RECURSIVE changeLoop(_, _, _, _, _, _)
\* for (const change of params.contentChanges) { notify(Change); applyEdit }
changeLoop(s, file, version, contentChanges, j, n) ==
    IF contentChanges = << >> THEN s
    ELSE LET change == Head(contentChanges)
             s1 == notify(s, "change", ChangeArgs(s.documents[file], file, change),
                          [n |-> n, j |-> j])
             s2 == [s1 EXCEPT !.documents[file] = applyEdit(@, version, change)]
         IN  changeLoop(s2, file, version, Tail(contentChanges), j + 1, n)

\* didChangeTextDocument that takes a null version for a version.
didChangeTextDocumentThrowsNotOpenOnly(s, file, versionIsNull) ==
    file \notin DOMAIN s.documents

\* The two throws of didChangeTextDocument: the path is not open, or the
\* version is null.
didChangeTextDocumentThrows(s, file, versionIsNull) ==
    file \notin DOMAIN s.documents \/ versionIsNull

\* A throw leaves what the handler did before it: documents.get has run.
didChangeTextDocument(s, file, version, versionIsNull, contentChanges, n) ==
    LET s1 == get(s, file)
    IN  IF didChangeTextDocumentThrows(s, file, versionIsNull) THEN s1
        ELSE requestDiagnostics(changeLoop(s1, file, version, contentChanges, 1, n))

\* didOpenTextDocument that opens the path whether or not it is open.
didOpenTextDocumentOpenAlways(s, file, text, version, n) ==
    LET s1 == [s EXCEPT !.documents = [f \in DOMAIN @ \cup {file} |->
                                          IF f = file THEN [text |-> text, version |-> version]
                                          ELSE @[f]],
                        !.files = <<file>> \o Remove(@, file),
                        !.accessed = Touch(@, file)]
        s2 == notify(s1, "open", [NoArgs EXCEPT !.file = file, !.text = text],
                     [n |-> n, j |-> 0])
    IN  requestDiagnostics(s2)

didOpenTextDocument(s, file, text, version, n) ==
    IF file \notin DOMAIN s.documents
    THEN LET s1 == open(s, file, [text |-> text, version |-> version])
             s2 == notify(s1, "open", [NoArgs EXCEPT !.file = file, !.text = text],
                          [n |-> n, j |-> 0])
         IN  requestDiagnostics(s2)
    ELSE didChangeTextDocument(s, file, version, FALSE,
                               << [hasRange |-> FALSE, range |-> 0, text |-> text] >>, n)

\* closeDocument that leaves the client's diagnostics as they are.
closeDocumentSilent(s, file, cause) ==
    IF file \notin DOMAIN s.documents THEN s
    ELSE notify(close(s, file), "close", [NoArgs EXCEPT !.file = file], cause)

\* closeDocument without the early return for a path that is not open.
closeDocumentUnguarded(s, file, cause) ==
    LET s1 == notify(close(s, file), "close", [NoArgs EXCEPT !.file = file], cause)
    IN  [s1 EXCEPT !.emptyPublishes[file] = @ + 1, !.published[file] = << >>]

closeDocument(s, file, cause) ==
    IF file \notin DOMAIN s.documents THEN s
    ELSE LET s1 == notify(close(s, file), "close", [NoArgs EXCEPT !.file = file], cause)
         IN  [s1 EXCEPT !.emptyPublishes[file] = @ + 1, !.published[file] = << >>]

didCloseTextDocument(s, file, n) == closeDocument(s, file, [n |-> n, j |-> 0])

RECURSIVE closeEach(_, _)
closeEach(s, list) ==
    IF list = << >> THEN s
    ELSE closeEach(closeDocument(s, Head(list), NoCause), Tail(list))

\* for (const file of [...this.documents.files]) this.closeDocument(file)
closeAll(s) == closeEach(s, s.files)

hover(s, file, position) ==
    interuptDiagnostics(s, "quickinfo",
                        [NoArgs EXCEPT !.file = file, !.line = position.line + 1,
                                       !.offset = position.character + 1])

initialize(s) ==
    request(request([s EXCEPT !.started = TRUE], "configure", NoArgs, FALSE, ""),
            "compilerOptionsForInferredProjects", NoArgs, FALSE, "")

\* ------------------------------------------- LSP requests and commands
\* The activation of an async handler of an LSP request: its method, for
\* executeCommand the command, whether arguments came with it and the branch
\* taken, the file and position of the request, the attached commands of a
\* code action and how many are still to be issued, whether a rename
\* location came with a refactoring's edits, the place the function is
\* suspended at (pc, "" once it has run to its end), the tsserver request it
\* awaited last, and how the promise it returned has settled: "pending",
\* fulfilled with an "empty" result, fulfilled with a "value", or rejected
\* with an "error".
NoCall ==
    [ method |-> "", command |-> "", hasArguments |-> FALSE, branch |-> "",
      file |-> "", position |-> [line |-> 0, character |-> 0],
      changes |-> 0, commands |-> 0, todo |-> 0, renameLocation |-> FALSE,
      pc |-> "", awaits |-> 0, outcome |-> "pending", items |-> << >>,
      origin |-> 0, index |-> 0 ]

Called(s, method, file, position) ==
    [s EXCEPT !.lspCalls = Append(@, [NoCall EXCEPT !.method = method, !.file = file,
                                                    !.position = position])]

\* The function of call c awaits the request it has just made; the line of
\* the request is tagged with the call.
Await(s, c, pc) ==
    [s EXCEPT !.promises[Len(s.promises)].awaiter = "lspCall",
              !.wire[Len(s.wire)].cause = [n |-> 0, j |-> 0, call |-> c],
              !.lspCalls[c].awaits = Len(s.promises),
              !.lspCalls[c].pc = pc]

\* The function of call c returns or throws: the promise it returned settles.
Return(s, c, outcome) ==
    [s EXCEPT !.lspCalls[c].outcome = outcome, !.lspCalls[c].pc = ""]

\* The end of a function nobody awaits.
Ended(s, c) == [s EXCEPT !.lspCalls[c].pc = ""]

\* The read requests, and the tsserver command each sends first.
ReadCommand ==
    [ definition |-> "definition", implementation |-> "implementation",
      typeDefinition |-> "typeDefinition", references |-> "references",
      hover |-> "quickinfo", signatureHelp |-> "signatureHelp",
      documentHighlight |-> "documentHighlights", documentSymbol |-> "navtree",
      foldingRanges |-> "getOutliningSpans", workspaceSymbol |-> "navto",
      codeAction |-> "getCodeFixes" ]
ReadMethods == DOMAIN ReadCommand

\* The reads that await their request inside a try/catch: getQuickInfo,
\* getSignatureHelp, documentHighlight, getCodeFixes and getRefactors.
CatchingReads == {"hover", "signatureHelp", "documentHighlight", "codeAction"}

\* The reads that run their request through interuptDiagnostics.
InterruptingReads == {"hover", "signatureHelp"}

\* lastFileOrDummy that takes the path at the end of the order.
lastFileOrDummyOldest(s) ==
    IF s.files # << >> THEN s.files[Len(s.files)] ELSE "rootPath"

\* this.documents.files[0] || this.rootPath()
lastFileOrDummy(s) == IF s.files # << >> THEN s.files[1] ELSE "rootPath"

\* The arguments of a read's request: the file alone for navtree and
\* getOutliningSpans, the last file for navto, file and 1-based position for
\* the others.
ReadArgs(s, method, file, position) ==
    IF method \in {"documentSymbol", "foldingRanges"}
    THEN [NoArgs EXCEPT !.file = file]
    ELSE IF method = "workspaceSymbol"
    THEN [NoArgs EXCEPT !.file = lastFileOrDummy(s)]
    ELSE [NoArgs EXCEPT !.file = file, !.line = position.line + 1,
                        !.offset = position.character + 1]

\* A read up to its first await.  foldingRanges looks the document up and
\* throws when it is not open.
read(s, method, file, position) ==
    LET c == Len(s.lspCalls) + 1
        s0 == Called(s, method, file, position)
        args == ReadArgs(s, method, file, position)
    IN  IF method = "foldingRanges" /\ file \notin DOMAIN s.documents
        THEN Return(s0, c, "error")
        ELSE LET s1 == IF method = "foldingRanges" THEN get(s0, file) ELSE s0
                 s2 == IF method \in InterruptingReads
                       THEN interuptDiagnostics(s1, ReadCommand[method], args)
                       ELSE request(s1, ReadCommand[method], args, FALSE, "")
             IN  Await(s2, c, IF method = "codeAction" THEN "codeFixes" ELSE "response")

\* A read after the request it awaited has settled.  A rejected request
\* throws out of the await; where a try/catch stands around it the response
\* counts as undefined, elsewhere the function's promise is rejected.
\* codeAction sends getApplicableRefactors after getCodeFixes and returns the
\* actions of both (call.changes keeps whether the first had a body).
readResumed(s, c) ==
    LET call == s.lspCalls[c]
        d == s.promises[call.awaits].deferred
        body == d.state = "resolved" /\ d.body.present
    IN  IF d.state = "rejected" /\ call.method \notin CatchingReads
        THEN Return(s, c, "error")
        ELSE IF call.method = "codeAction" /\ call.pc = "codeFixes"
        THEN Await(request([s EXCEPT !.lspCalls[c].changes = IF body THEN 1 ELSE 0],
                           "getApplicableRefactors",
                           ReadArgs(s, call.method, call.file, call.position), FALSE, ""),
                   c, "refactors")
        ELSE Return(s, c, IF body \/ call.changes > 0 THEN "value" ELSE "empty")

\* rename up to its await, and after it: no try/catch; no body, canRename
\* false or no location (edits = 0) gives undefined.
rename(s, file, position) ==
    Await(request(Called(s, "rename", file, position), "rename",
                  [NoArgs EXCEPT !.file = file, !.line = position.line + 1,
                                 !.offset = position.character + 1], FALSE, ""),
          Len(s.lspCalls) + 1, "response")

renameResumed(s, c) ==
    LET d == s.promises[s.lspCalls[c].awaits].deferred
    IN  IF d.state = "rejected" THEN Return(s, c, "error")
        ELSE IF ~d.body.present \/ d.body.edits = 0 THEN Return(s, c, "empty")
        ELSE Return(s, c, "value")

\* capabilities.executeCommandProvider.commands of the initialize result.
executeCommandProvider ==
    { "_typescript.applyWorkspaceEdit", "_typescript.applyCodeAction",
      "_typescript.applyRefactoring", "_typescript.organizeImports",
      "_typescript.applyRenameFile" }

\* lspClient.applyWorkspaceEdit / lspClient.rename: a request of the client,
\* awaited by the function of call c.
clientRequest(s, c, method, pc) ==
    [s EXCEPT !.clientRequests = Append(@, [call |-> c, method |-> method,
                                            answered |-> FALSE, applied |-> FALSE]),
              !.lspCalls[c].pc = pc]

\* The loop over codeAction.commands: the next applyCodeActionCommand, or the
\* end of executeCommand.
nextCommand(s, c) ==
    LET call == s.lspCalls[c]
    IN  IF call.todo = 0 THEN Return(s, c, "value")
        ELSE Await(request([s EXCEPT !.lspCalls[c].todo = @ - 1], "applyCodeActionCommand",
                           [NoArgs EXCEPT !.command = call.commands - call.todo + 1],
                           FALSE, ""),
                   c, "command")

\* executeCommand up to its first await.  The branches compare the command
\* and ask for arguments; applyFileCodeEdits returns false for an empty list
\* without a request of the client; applyRenameFile is called and not awaited,
\* so executeCommand returns while getEditsForFileRename is still pending.
executeCommand(s, command, hasArguments, arg) ==
    LET c == Len(s.lspCalls) + 1
        s0 == [s EXCEPT !.lspCalls =
                  Append(@, [NoCall EXCEPT !.method = "executeCommand", !.command = command,
                                           !.hasArguments = hasArguments,
                                           !.branch = command])]
    IN  IF command = "_typescript.applyWorkspaceEdit" /\ hasArguments
        THEN clientRequest(s0, c, "applyWorkspaceEdit", "edited")
        ELSE IF command = "_typescript.applyCodeAction" /\ hasArguments
        THEN LET s1 == [s0 EXCEPT !.lspCalls[c].changes = arg.changes,
                                  !.lspCalls[c].commands = arg.commands,
                                  !.lspCalls[c].todo = arg.commands]
             IN  IF arg.changes = 0 THEN Return(s1, c, "value")
                 ELSE clientRequest(s1, c, "applyWorkspaceEdit", "changesApplied")
        ELSE IF command = "_typescript.applyRefactoring" /\ hasArguments
        THEN Await(request(s0, "getEditsForRefactor", NoArgs, FALSE, ""), c, "refactorEdits")
        ELSE IF command = "_typescript.organizeImports" /\ hasArguments
        THEN Await(request(s0, "organizeImports", NoArgs, FALSE, ""), c, "importEdits")
        ELSE IF command = "_typescript.applyRenameFile" /\ hasArguments
        THEN LET s1 == Await(request(s0, "getEditsForFileRename", NoArgs, FALSE, ""),
                             c, "renameFileEdits")
             IN  [s1 EXCEPT !.lspCalls[c].outcome = "value"]
        ELSE Return([s0 EXCEPT !.lspCalls[c].branch = "Unknown command"], c, "value")

\* executeCommand after an await of tsserver.  A rejected request throws out
\* of executeCommand, except in getEditsForFileRename, whose catch returns no
\* edits.  applyFileCodeEdits reads edits.length, which throws for a response
\* without a body; in applyRenameFile nobody awaits that promise.
executeCommandResumed(s, c) ==
    LET call == s.lspCalls[c]
        d == s.promises[call.awaits].deferred
        failed == d.state = "rejected"
    IN  IF call.pc = "renameFileEdits"
        THEN IF failed \/ ~d.body.present \/ d.body.edits = 0 THEN Ended(s, c)
             ELSE Ended(clientRequest(s, c, "applyWorkspaceEdit", ""), c)
        ELSE IF failed THEN Return(s, c, "error")
        ELSE IF call.pc = "command" THEN nextCommand(s, c)
        ELSE IF call.pc = "refactorEdits"
        THEN IF ~d.body.present \/ d.body.edits = 0 THEN Return(s, c, "value")
             ELSE clientRequest([s EXCEPT !.lspCalls[c].renameLocation = d.body.renameLocation],
                                c, "applyWorkspaceEdit", "refactorApplied")
        ELSE IF ~d.body.present THEN Return(s, c, "error")
        ELSE IF d.body.edits = 0 THEN Return(s, c, "value")
        ELSE clientRequest(s, c, "applyWorkspaceEdit", "importsApplied")

\* executeCommand after the client has answered applyWorkspaceEdit or rename.
executeCommandAnswered(s, c, applied) ==
    LET call == s.lspCalls[c]
    IN  IF call.pc = "changesApplied"
        THEN IF applied THEN nextCommand(s, c) ELSE Return(s, c, "value")
        ELSE IF call.pc = "refactorApplied"
        THEN IF applied /\ call.renameLocation THEN clientRequest(s, c, "rename", "renamed")
             ELSE Return(s, c, "value")
        ELSE IF call.pc \in {"edited", "importsApplied", "renamed"}
        THEN Return(s, c, "value")
        ELSE s

\* ------------------------------------------------------------- completion
\* protocol-translation: 1-based tsserver locations to 0-based LSP positions.
toPosition(location) ==
    [line |-> location.line - 1, character |-> location.offset - 1]

asRange(span) == [start |-> toPosition(span.start), end |-> toPosition(span.end)]

\* LspDocument.getLineOffset and getLineEnd.
getLineOffset(text, line) == offsetAt(text, [line |-> line, character |-> 0])

getLineEnd(text, line) == positionAt(text, getLineOffset(text, line + 1) - 1)

\* TextDocument.getText(range): the text between the offsets of the range's
\* ends.
getText(text, range) ==
    SubSeq(text, offsetAt(text, range.start) + 1, offsetAt(text, range.end))

\* LspDocument.lineAt and getLine: the text from character -1 of the line to
\* character Number.MAX_VALUE, which offsetAt clamps to the line's start and
\* to the start of the next line (any character from the text's length on is
\* clamped alike); the line break of a line that has one is part of it.
lineAt(text, line) ==
    getText(text, [start |-> [line |-> line, character |-> -1],
                   end |-> [line |-> line, character |-> Len(text)]])

getLine(text, line) == lineAt(text, line)

\* /\s/ on the characters the texts are made of.
IsSpace(ch) == ch \in {" ", NL}

\* lineText.charAt(k), k counted from 0: "" outside the string.
charAt(lineText, k) == IF k >= 0 /\ k < Len(lineText) THEN lineText[k + 1] ELSE ""

\* LspDocument.getWordRangeAtPosition: from the position, clamped into the
\* line's text, to the left while the character before is no whitespace, to
\* the right while the character at hand is no whitespace and is not the
\* last of the line's text; nothing when both ends meet.
getWordRangeAtPosition(text, position) ==
    LET lines == lineCount(text)
        line == Min2(lines - 1, Max2(0, position.line))
        lineText == getLine(text, line)
        character == Min2(Len(lineText) - 1, Max2(0, position.character))
        Word(from, to) == \A k \in from..(to - 1) : ~IsSpace(charAt(lineText, k))
        startChar == IF character <= 0 THEN character
                     ELSE CHOOSE s \in 0..character :
                              /\ Word(s, character)
                              /\ \A r \in 0..(s - 1) : ~Word(r, character)
        endChar == IF character >= Len(lineText) - 1 THEN character
                   ELSE CHOOSE e \in character..(Len(lineText) - 1) :
                            /\ Word(character, e)
                            /\ \A r \in (e + 1)..(Len(lineText) - 1) : ~Word(character, r)
    IN  [ present |-> startChar # endChar,
          range |-> [start |-> [line |-> line, character |-> startChar],
                     end |-> [line |-> line, character |-> endChar]] ]

\* The characters of the names and insert texts of the entries.
Spelling(string) ==
    CASE string = "" -> << >>
      [] string = "x" -> <<"x">>
      [] string = "t" -> <<"t">>
      [] string = "?.x" -> <<"?", ".", "x">>
      [] string = "#p" -> <<"#", "p">>
      [] string = "this.#p" -> <<"t", "h", "i", "s", ".", "#", "p">>
      [] string = "this.x" -> <<"t", "h", "i", "s", ".", "x">>
      [] string = "['a']" -> <<"[", "'", "a", "'", "]">>

\* string.startsWith(prefix) on characters.
startsWith(chars, prefix) ==
    Len(chars) >= Len(prefix) /\ SubSeq(chars, 1, Len(prefix)) = prefix

NoFilterText == [present |-> FALSE, text |-> << >>]
SomeFilterText(chars) == [present |-> chars # << >>, text |-> chars]

\* insertText.replace(/^\[['"](.+)[['"]\]$/, '.$1'): a bracket accessor
\* becomes a dot and what the quotes hold.
BracketAsDot(chars) ==
    IF /\ Len(chars) >= 5
       /\ chars[1] = "[" /\ chars[2] \in {"'", "\""}
       /\ chars[Len(chars) - 1] \in {"[", "'", "\""} /\ chars[Len(chars)] = "]"
       /\ \A k \in 3..(Len(chars) - 2) : chars[k] # NL
    THEN <<".">> \o SubSeq(chars, 3, Len(chars) - 2)
    ELSE chars

\* getFilterText, line being the text of the line after the cursor's: of a
\* private name what is typed after the '#', or the insert text where the
\* word at the cursor starts with '#'; none for an insert text with 'this.';
\* of a bracket accessor the dot accessor; the insert text otherwise.  An
\* absent and an empty string are one, both being falsy where they are read.
getFilterText(line, insertText, entry, position, text) ==
    LET name == Spelling(entry.name)
        insert == Spelling(insertText)
        private == <<"t", "h", "i", "s", ".", "#">>
        wordRange == getWordRangeAtPosition(text, position)
        wordStart == IF wordRange.present
                     THEN charAt(line, wordRange.range.start.character) ELSE "none"
    IN  IF startsWith(name, <<"#">>)
        THEN IF insert # << >>
             THEN IF startsWith(insert, private)
                  THEN IF wordStart = "#" THEN SomeFilterText(insert)
                       ELSE SomeFilterText(SubSeq(insert, Len(private) + 1, Len(insert)))
                  ELSE SomeFilterText(insert)
             ELSE IF wordStart = "#" THEN NoFilterText
                  ELSE SomeFilterText(Tail(name))
        ELSE IF startsWith(insert, <<"t", "h", "i", "s", ".">>) THEN NoFilterText
        ELSE IF startsWith(insert, <<"[">>) THEN SomeFilterText(BracketAsDot(insert))
        ELSE SomeFilterText(insert)

\* LspServer.completion, of a member completion: the '.' or '?.' and the
\* whitespace after it that end the line's text before the cursor, with their
\* range.  It is handed to asCompletionItem as a fifth argument.
NoContext ==
    [ present |-> FALSE, text |-> << >>,
      range |-> [start |-> [line |-> 0, character |-> 0],
                 end |-> [line |-> 0, character |-> 0]] ]
DotAccessorContext(isMemberCompletion, text, position) ==
    LET line == lineAt(text, position.line)
        before == SubSeq(line, 1, Min2(Max2(position.character, 0), Len(line)))
        n == Len(before)
        spaces == CHOOSE k \in 0..n :
                      /\ \A j \in (n - k + 1)..n : IsSpace(before[j])
                      /\ k < n => ~IsSpace(before[n - k])
        dot == n - spaces
        length == IF dot >= 2 /\ before[dot - 1] = "?" THEN spaces + 2 ELSE spaces + 1
        range == [start |-> [line |-> position.line,
                             character |-> position.character - length],
                  end |-> position]
    IN  IF isMemberCompletion /\ dot >= 1 /\ before[dot] = "."
        THEN [present |-> TRUE, text |-> getText(text, range), range |-> range]
        ELSE NoContext

\* An entry of a completionInfo response, as far as asCompletionItem reads it:
\* an absent source or insertText is "", kindModifiers is the set of the
\* words of the entry's string.
NoSpan == [start |-> [line |-> 0, offset |-> 0], end |-> [line |-> 0, offset |-> 0]]
NoTextEdit ==
    [ range |-> [start |-> [line |-> 0, character |-> 0],
                 end |-> [line |-> 0, character |-> 0]],
      newText |-> "" ]

\* asCompletionItem whose data carries the LSP position as it came.
asCompletionItemZeroBasedData(entry, file, position, text) ==
    LET converted == asRange(entry.replacementSpan)
        replacementRange ==
            IF entry.hasReplacementSpan /\ converted.start.line # converted.end.line
            THEN [start |-> converted.start, end |-> getLineEnd(text, converted.start.line)]
            ELSE converted
        optional == "optional" \in entry.kindModifiers
        insertText == IF optional /\ entry.insertText = "" THEN entry.name
                      ELSE entry.insertText
        hasTextEdit == insertText # "" /\ entry.hasReplacementSpan
        filterText == getFilterText(getLine(text, position.line + 1), entry.insertText,
                                    entry, position, text)
    IN  [ label |-> entry.name, optional |-> optional,
          filterText |-> IF optional /\ ~filterText.present
                         THEN SomeFilterText(Spelling(entry.name)) ELSE filterText,
          data |-> [NoArgs EXCEPT !.file = file, !.line = position.line,
                                  !.offset = position.character,
                                  !.entryNames =
                                      << IF entry.source # ""
                                         THEN [plain |-> FALSE, name |-> entry.name,
                                               source |-> entry.source]
                                         ELSE [plain |-> TRUE, name |-> entry.name,
                                               source |-> ""] >>],
          hasTextEdit |-> hasTextEdit,
          textEdit |-> IF hasTextEdit
                       THEN [range |-> replacementRange, newText |-> insertText]
                       ELSE NoTextEdit,
          insertText |-> IF hasTextEdit THEN entry.insertText ELSE insertText ]

\* asCompletionItem: the item's data for the later resolve, and its text
\* edit.  An element of entryNames is the plain name, or the name with its
\* source.  A replacement span over several lines ends at the end of its
\* first line.  An optional member without insert text inserts its label
\* and is filtered by it.  The function has four parameters: the fifth
\* argument of its call in LspServer.completion, with the dot accessor
\* context, is not read.
asCompletionItem(entry, file, position, text) ==
    LET converted == asRange(entry.replacementSpan)
        replacementRange ==
            IF entry.hasReplacementSpan /\ converted.start.line # converted.end.line
            THEN [start |-> converted.start, end |-> getLineEnd(text, converted.start.line)]
            ELSE converted
        optional == "optional" \in entry.kindModifiers
        insertText == IF optional /\ entry.insertText = "" THEN entry.name
                      ELSE entry.insertText
        hasTextEdit == insertText # "" /\ entry.hasReplacementSpan
        filterText == getFilterText(getLine(text, position.line + 1), entry.insertText,
                                    entry, position, text)
    IN  [ label |-> entry.name, optional |-> optional,
          filterText |-> IF optional /\ ~filterText.present
                         THEN SomeFilterText(Spelling(entry.name)) ELSE filterText,
          data |-> [NoArgs EXCEPT !.file = file, !.line = position.line + 1,
                                  !.offset = position.character + 1,
                                  !.entryNames =
                                      << IF entry.source # ""
                                         THEN [plain |-> FALSE, name |-> entry.name,
                                               source |-> entry.source]
                                         ELSE [plain |-> TRUE, name |-> entry.name,
                                               source |-> ""] >>],
          hasTextEdit |-> hasTextEdit,
          textEdit |-> IF hasTextEdit
                       THEN [range |-> replacementRange, newText |-> insertText]
                       ELSE NoTextEdit,
          insertText |-> IF hasTextEdit THEN entry.insertText ELSE insertText ]

\* completion up to its await: the document must be open.
completion(s, file, position) ==
    LET c == Len(s.lspCalls) + 1
        s0 == Called(s, "completion", file, position)
    IN  IF file \notin DOMAIN s.documents
        THEN Return(s0, c, "error")
        ELSE Await(interuptDiagnostics(get(s0, file), "completionInfo",
                                       [NoArgs EXCEPT !.file = file,
                                                      !.line = position.line + 1,
                                                      !.offset = position.character + 1]),
                   c, "response")

\* completion whose catch answers null to every failure.
completionResumedSwallowsAll(s, c) ==
    LET call == s.lspCalls[c]
        d == s.promises[call.awaits].deferred
    IN  IF d.state = "rejected" \/ ~d.body.present THEN Return(s, c, "empty")
        ELSE Return([s EXCEPT !.lspCalls[c].items =
                                  [i \in 1..Len(d.body.entries) |->
                                      asCompletionItem(d.body.entries[i], call.file,
                                                       call.position,
                                                       s.documents[call.file].text)]],
                    c, "value")

\* completion after its await.  A failure whose message is 'No content
\* available.' and a response without body give null, any other failure is
\* thrown again; no entry is filtered out, the configuration showing all.
completionResumed(s, c) ==
    LET call == s.lspCalls[c]
        d == s.promises[call.awaits].deferred
    IN  IF d.state = "rejected"
        THEN Return(s, c, IF d.body.message = "No content available."
                          THEN "empty" ELSE "error")
        ELSE IF ~d.body.present THEN Return(s, c, "empty")
        ELSE Return([s EXCEPT !.lspCalls[c].items =
                                  [i \in 1..Len(d.body.entries) |->
                                      asCompletionItem(d.body.entries[i], call.file,
                                                       call.position,
                                                       s.documents[call.file].text)]],
                    c, "value")

\* completionResolve of the item the client got as the index-th of the call
\* origin: the request's arguments are the item's data.
completionResolve(s, origin, index) ==
    LET c == Len(s.lspCalls) + 1
        item == s.lspCalls[origin].items[index]
        s0 == Called(s, "completionResolve", item.data.file, s.lspCalls[origin].position)
        s1 == [s0 EXCEPT !.lspCalls[c].origin = origin, !.lspCalls[c].index = index]
    IN  Await(interuptDiagnostics(s1, "completionEntryDetails", item.data), c, "response")

\* protocol-translation.toTextEdit: a tsserver code edit as an LSP text edit.
toTextEdit(edit) ==
    [ range |-> [start |-> toPosition(edit.start), end |-> toPosition(edit.end)],
      newText |-> edit.newText ]

RECURSIVE Flatten(_)
Flatten(lists) ==
    IF lists = << >> THEN << >> ELSE Head(lists) \o Flatten(Tail(lists))

\* The text changes of file code edits, in order, as LSP text edits.
TextEditsOf(changes) ==
    Flatten([j \in 1..Len(changes) |->
                [k \in 1..Len(changes[j].textChanges) |->
                    toTextEdit(changes[j].textChanges[k])]])

\* What asCodeActions adds to an item: no command, no additional edit.
NoCommand == [command |-> "", file |-> "", actions |-> << >>]
NoCodeActions ==
    [hasCommand |-> FALSE, command |-> NoCommand, additionalTextEdits |-> << >>]

\* asCodeActions whose command keeps the edits of the item's own file.
asCodeActionsKeepsOwn(details, filepath) ==
    LET actions == details.codeActions
        Own(x) == x.fileName = filepath
        Other(x) == x.fileName # filepath
        additionalTextEdits ==
            Flatten([i \in 1..Len(actions) |->
                        TextEditsOf(SelectSeq(actions[i].changes, Own))])
        hasReaminingCommandsOrEdits ==
            \E i \in 1..Len(actions) :
                \/ actions[i].commands.present
                \/ \E j \in 1..Len(actions[i].changes) : Other(actions[i].changes[j])
    IN  IF actions = << >> THEN NoCodeActions
        ELSE [ hasCommand |-> hasReaminingCommandsOrEdits,
               command |->
                   IF hasReaminingCommandsOrEdits
                   THEN [ command |-> "_typescript.applyCompletionCodeAction",
                          file |-> filepath,
                          actions |-> [i \in 1..Len(actions) |->
                                          [ commands |-> actions[i].commands,
                                            changes |-> actions[i].changes ]] ]
                   ELSE NoCommand,
               additionalTextEdits |-> additionalTextEdits ]

\* asCodeActions: the edits of the item's own file become additional text
\* edits; a command carries the actions without them when an action has a
\* commands property (an empty list is one) or an edit of another file.  The
\* commands of an action are [present, list]; an empty list of additional
\* edits stands for none.
asCodeActions(details, filepath) ==
    LET actions == details.codeActions
        Own(x) == x.fileName = filepath
        Other(x) == x.fileName # filepath
        additionalTextEdits ==
            Flatten([i \in 1..Len(actions) |->
                        TextEditsOf(SelectSeq(actions[i].changes, Own))])
        hasReaminingCommandsOrEdits ==
            \E i \in 1..Len(actions) :
                \/ actions[i].commands.present
                \/ \E j \in 1..Len(actions[i].changes) : Other(actions[i].changes[j])
    IN  IF actions = << >> THEN NoCodeActions
        ELSE [ hasCommand |-> hasReaminingCommandsOrEdits,
               command |->
                   IF hasReaminingCommandsOrEdits
                   THEN [ command |-> "_typescript.applyCompletionCodeAction",
                          file |-> filepath,
                          actions |-> [i \in 1..Len(actions) |->
                                          [ commands |-> actions[i].commands,
                                            changes |-> SelectSeq(actions[i].changes, Other) ]] ]
                   ELSE NoCommand,
               additionalTextEdits |-> additionalTextEdits ]

\* asResolvedCompletionItem, as far as the code actions go.
asResolvedCompletionItem(item, details) ==
    [ item |-> item, actions |-> asCodeActions(details, item.data.file) ]

\* completionResolve after its await: a failure is thrown; without details
\* the item comes back as it is.
completionResolveResumed(s, c) ==
    LET call == s.lspCalls[c]
        d == s.promises[call.awaits].deferred
        item == s.lspCalls[call.origin].items[call.index]
    IN  IF d.state = "rejected" THEN Return(s, c, "error")
        ELSE IF ~d.body.present \/ d.body.details = << >>
        THEN Return([s EXCEPT !.lspCalls[c].items =
                                  << [item |-> item, actions |-> NoCodeActions] >>],
                    c, "value")
        ELSE Return([s EXCEPT !.lspCalls[c].items =
                                  << asResolvedCompletionItem(item, d.body.details[1]) >>],
                    c, "value")

\* The continuation of the function that awaited promise id.
resumed(s, id) ==
    LET c == CHOOSE k \in 1..Len(s.lspCalls) : s.lspCalls[k].awaits = id
        method == s.lspCalls[c].method
    IN  IF method \in ReadMethods THEN readResumed(s, c)
        ELSE IF method = "rename" THEN renameResumed(s, c)
        ELSE IF method = "completion" THEN completionResumed(s, c)
        ELSE IF method = "completionResolve" THEN completionResolveResumed(s, c)
        ELSE executeCommandResumed(s, c)

\* ------------------------------------------- the claims' reference semantics
\* The (line, character) of the k-th character, counted from the line breaks
\* before it.
PosOfChar(text, k) ==
    LET breaks == {i \in 1..(k - 1) : text[i] = NL}
        last == IF breaks = {} THEN 0 ELSE CHOOSE i \in breaks : \A x \in breaks : x <= i
    IN  [line |-> Cardinality(breaks), character |-> k - 1 - last]

PosBefore(p, q) ==
    p.line < q.line \/ (p.line = q.line /\ p.character < q.character)

\* A content change applied to a text: what lies before range.start, the new
\* text, what lies at or after range.end; the new text alone without a range.
ReferenceApply(text, change) ==
    IF change.hasRange
    THEN LET before == Cardinality({k \in 1..Len(text) :
                                       PosBefore(PosOfChar(text, k), change.range.start)})
             upto == Cardinality({k \in 1..Len(text) :
                                     PosBefore(PosOfChar(text, k), change.range.end)})
         IN  SubSeq(text, 1, before) \o change.text \o SubSeq(text, upto + 1, Len(text))
    ELSE change.text

RECURSIVE ReferenceApplyAll(_, _)
ReferenceApplyAll(text, changes) ==
    IF changes = << >> THEN text
    ELSE ReferenceApplyAll(ReferenceApply(text, Head(changes)), Tail(changes))

\* ================================================================== inputs
Pos(l, c) == [line |-> l, character |-> c]
Rng(a, b) == [start |-> a, end |-> b]
Ranged(r, text) == [hasRange |-> TRUE, range |-> r, text |-> text]
Full(text) == [hasRange |-> FALSE, range |-> Rng(Pos(0, 0), Pos(0, 0)), text |-> text]

OpenParams ==
    { [text |-> <<"a">>, version |-> 1], [text |-> <<"a", NL, "b">>, version |-> 1],
      [text |-> <<"a">>, version |-> 2] }
\* Single content changes: an insertion, a replacement on one line, a deletion
\* across the line break, an insertion of a line break, and a change without a
\* range.
Changes ==
    { Ranged(Rng(Pos(0, 0), Pos(0, 0)), <<"c">>),
      Ranged(Rng(Pos(0, 0), Pos(0, 1)), <<"c">>),
      Ranged(Rng(Pos(0, 1), Pos(1, 0)), << >>),
      Ranged(Rng(Pos(0, 1), Pos(0, 1)), <<NL>>),
      Full(<<"b">>) }
\* Changes sent two in one didChange.
PairChanges ==
    { Ranged(Rng(Pos(0, 0), Pos(0, 1)), <<"c">>), Ranged(Rng(Pos(0, 1), Pos(0, 1)), <<NL>>) }
ChangeLists ==
    { << >> } \cup { <<c>> : c \in Changes }
        \cup { <<c, d>> : c \in PairChanges, d \in PairChanges }
\* didChange parameters: every list at version 2, an older version, and a
\* null version.
ChangeParams ==
    { [version |-> 2, isNull |-> FALSE, contentChanges |-> cs] : cs \in ChangeLists }
        \cup { [version |-> 1, isNull |-> FALSE, contentChanges |-> << Full(<<"b">>) >>],
               [version |-> 0, isNull |-> TRUE, contentChanges |-> << Full(<<"b">>) >>] }

\* The inputs of the session that exercises the transport and the diagnostics
\* loop: one file, one text.
LoopFiles == {"f1"}
LoopText == <<"a">>
LoopChanges == { << >>, << Full(<<"b">>) >> }

\* The didChange parameters of the life-cycle session: one change without a
\* range, two changes with one, and a null version.
LifeParams ==
    { [version |-> 2, isNull |-> FALSE, contentChanges |-> << Full(<<"b">>) >>],
      [version |-> 2, isNull |-> FALSE,
       contentChanges |-> << Ranged(Rng(Pos(0, 0), Pos(0, 0)), <<"c">>),
                             Ranged(Rng(Pos(0, 1), Pos(0, 1)), <<NL>>) >>],
      [version |-> 0, isNull |-> TRUE, contentChanges |-> << Full(<<"b">>) >>] }

Messages ==
    { [type |-> "response", event |-> "", request_seq |-> r, success |-> b,
       body |-> NoBody] :
          r \in 0..seq, b \in BOOLEAN }
        \cup { [type |-> "event", event |-> "requestCompleted", request_seq |-> r,
                success |-> TRUE, body |-> NoBody] : r \in 0..seq }
        \cup { [type |-> "skip", event |-> "", request_seq |-> 0, success |-> TRUE,
                body |-> NoBody] }

\* Every kind of line tsserver's stdout may carry: the replies above, events
\* that are no requestCompleted, and a line that is no JSON.
WireLines ==
    Messages
        \cup { [type |-> "event", event |-> e, request_seq |-> 0, success |-> TRUE,
                body |-> NoBody] :
                   e \in {"semanticDiag", "projectLoadingStart"} }
        \cup { [type |-> "malformed", event |-> "", request_seq |-> 0, success |-> TRUE,
                body |-> NoBody] }

\* ================================================================= actions
\* The server as constructed, with a logger that records or one that is
\* silent.
Start(recording) ==
    /\ started = FALSE
    /\ log = [on |-> recording, last |-> NoMessage]
    /\ uncaught = FALSE
    /\ alive = TRUE
    /\ seq = 0
    /\ wire = << >>
    /\ deferreds = << >>
    /\ promises = << >>
    /\ cancelFiles = {}
    /\ forwarded = {}
    /\ answered = {}
    /\ diagnosticsTokenSource = 0
    /\ microtasks = << >>
    /\ timer = Disarmed
    /\ elapsed = 0
    /\ burst = [open |-> FALSE, geterrs |-> 0, calls |-> 0, after |-> 0]
    /\ geterrElapsed = {}
    /\ documents = << >>
    /\ files = << >>
    /\ expectedText = [f \in Paths |-> NoText]
    /\ arrivals = 0
    /\ emptyPublishes = [f \in Paths |-> 0]
    /\ lastDidClose = [f \in Paths |-> [seen |-> FALSE, wasOpen |-> FALSE, mark |-> 0]]
    /\ lspCalls = << >>
    /\ clientRequests = << >>
    /\ buckets = [f \in Paths |-> [k \in DiagnosticKinds |-> << >>]]
    /\ published = [f \in Paths |-> << >>]
    /\ accessed = << >>
    /\ unhandled = {}

Init == Start(FALSE)

\* The session whose logger records.
InitWire == Start(TRUE)

\* A handler runs when the server is initialized and no microtask is queued;
\* an uncaught exception ends the server process.
Ready == started /\ microtasks = << >> /\ ~uncaught

\* The handler of the n-th notification that writes to tsserver has run.
Arrived(s, n) == IF s.seq > seq THEN [s EXCEPT !.arrivals = n] ELSE s

\* The session may still write k lines to the child.
Room(cap, k) == seq + k <= cap

\* The lines a didChange and a didClose write.
ChangeWrites(file, versionIsNull, contentChanges) ==
    IF file \in DOMAIN documents /\ ~versionIsNull THEN Len(contentChanges) ELSE 0
CloseWrites(file) == IF file \in DOMAIN documents THEN 1 ELSE 0

Bounded(s) ==
    \A f \in DOMAIN s.documents : Len(s.documents[f].text) <= MaxTextLen

Initialize ==
    /\ ~started /\ ~uncaught
    /\ Commit(initialize(State))

DidOpenTextDocument(file, text, version) ==
    /\ Ready
    /\ LET n == arrivals + 1
           s0 == [State EXCEPT !.expectedText[file] = text]
           s1 == Arrived(didOpenTextDocument(s0, file, text, version, n), n)
       IN  \E s2 \in {s1} : Bounded(s2) /\ Commit(s2)

DidChangeTextDocument(file, version, versionIsNull, contentChanges) ==
    /\ Ready
    /\ LET n == arrivals + 1
           applies == file \in DOMAIN documents /\ ~versionIsNull
           s0 == [State EXCEPT
                     !.expectedText[file] =
                         IF applies THEN ReferenceApplyAll(@, contentChanges) ELSE @]
           s1 == Arrived(didChangeTextDocument(s0, file, version, versionIsNull, contentChanges, n), n)
       IN  \E s2 \in {s1} : Bounded(s2) /\ Commit(s2)

DidCloseTextDocument(file) ==
    /\ Ready
    /\ LET n == arrivals + 1
           s0 == [State EXCEPT
                     !.expectedText[file] = NoText,
                     !.lastDidClose[file] = [seen |-> TRUE, wasOpen |-> file \in DOMAIN documents,
                                             mark |-> emptyPublishes[file]]]
           s1 == Arrived(didCloseTextDocument(s0, file, n), n)
       IN  \E s2 \in {s1} : Bounded(s2) /\ Commit(s2)

CloseAll ==
    /\ Ready
    /\ LET s1 == closeAll([State EXCEPT !.expectedText = [f \in Paths |-> NoText]])
       IN  \E s2 \in {s1} : Bounded(s2) /\ Commit(s2)

Hover(file, position) ==
    /\ Ready
    /\ LET s1 == hover(State, file, position)
       IN  \E s2 \in {s1} : Bounded(s2) /\ Commit(s2)

\* The debounce timer expires: timer = null; fn().
DebounceFire ==
    /\ Ready
    /\ timer.armed /\ timer.left = 0
    /\ LET s1 == doRequestDiagnostics([State EXCEPT !.timer = Disarmed])
       IN  \E s2 \in {s1} : Bounded(s2) /\ Commit(s2)

\* Time passes, up to the moment the timer is due.
Tick ==
    /\ Ready
    /\ timer.armed /\ timer.left > 0
    /\ Commit([State EXCEPT !.timer.left = @ - Quantum, !.elapsed = @ + Quantum])

\* readline hands one line of the child's stdout to processMessage.
ProcessMessage(message) ==
    /\ started /\ alive /\ ~uncaught
    /\ LET s0 == [State EXCEPT
                     !.answered = IF isResponse(message) \/ isRequestCompletedEvent(message)
                                  THEN @ \cup ({message.request_seq} \cap RequestSeqs(wire))
                                  ELSE @]
       IN  \E s2 \in {processMessage(s0, message)} : Commit(s2)

RunMicrotask ==
    /\ microtasks # << >> /\ ~uncaught
    /\ LET id == Head(microtasks)
           s0 == [State EXCEPT !.microtasks = Tail(@)]
       IN  IF promises[id].awaiter = "doRequestDiagnostics"
           THEN Commit(doRequestDiagnosticsFinally(s0, id))
           ELSE Commit(resumed(s0, id))

\* An LSP request of the client arrives.
Read(method, file, position) ==
    /\ Ready
    /\ Commit(read(State, method, file, position))

Rename(file, position) ==
    /\ Ready
    /\ Commit(rename(State, file, position))

ExecuteCommand(command, hasArguments, arg) ==
    /\ Ready
    /\ Commit(executeCommand(State, command, hasArguments, arg))

Completion(file, position) ==
    /\ Ready
    /\ Commit(completion(State, file, position))

\* The client resolves an item a completion has returned to it.
CompletionResolve(origin, index) ==
    /\ Ready
    /\ origin \in 1..Len(lspCalls)
    /\ lspCalls[origin].method = "completion" /\ lspCalls[origin].outcome = "value"
    /\ index \in 1..Len(lspCalls[origin].items)
    /\ Commit(completionResolve(State, origin, index))

\* The client answers the oldest request made of it.
ClientAnswer(applied) ==
    /\ Ready
    /\ \E k \in 1..Len(clientRequests) :
           /\ ~clientRequests[k].answered
           /\ \A j \in 1..(k - 1) : clientRequests[j].answered
           /\ Commit(executeCommandAnswered(
                         [State EXCEPT !.clientRequests[k].answered = TRUE,
                                       !.clientRequests[k].applied = applied],
                         clientRequests[k].call, applied))

\* The child process exits; start() registers no listener for it.
ChildExit ==
    /\ started /\ alive /\ ~uncaught
    /\ Commit([State EXCEPT !.alive = FALSE])

\* tsserver answers, sooner or later, every request it has read.
Answer ==
    \E m \in Messages : m.request_seq \in DOMAIN deferreds /\ ProcessMessage(m)

\* The transport and the diagnostics loop in one session: one file is opened
\* and edited, reads interrupt the loop, tsserver answers in any order and
\* also sends lines nobody waits for.
Next ==
    \/ Initialize
    \/ \E f \in LoopFiles : Room(MaxSeq, 1) /\ DidOpenTextDocument(f, LoopText, 1)
    \/ \E f \in LoopFiles, cs \in LoopChanges :
           Room(MaxSeq, ChangeWrites(f, FALSE, cs)) /\ DidChangeTextDocument(f, 2, FALSE, cs)
    \/ \E f \in LoopFiles : Room(MaxSeq, 1) /\ Hover(f, Pos(0, 0))
    \/ Room(MaxSeq, 1) /\ DebounceFire
    \/ Tick
    \/ \E m \in Messages : ProcessMessage(m)
    \/ RunMicrotask

Spec == Init /\ [][Next]_vars

\* Reads that interrupt the diagnostics loop, over a session long enough for
\* a geterr, a read that interrupts it and the geterr scheduled anew.
NextReads ==
    \/ Initialize
    \/ \E f \in LoopFiles : Room(MaxReadSeq, 1) /\ DidOpenTextDocument(f, LoopText, 1)
    \/ \E f \in LoopFiles : Room(MaxReadSeq, 1) /\ Hover(f, Pos(0, 0))
    \/ Room(MaxReadSeq, 1) /\ DebounceFire
    \/ Tick
    \/ \E m \in Messages : ProcessMessage(m)
    \/ RunMicrotask

SpecReads == Init /\ [][NextReads]_vars

\* The transport under every kind of stdout line, with a recording logger:
\* initialize's requests, an open notification and a geterr wait for tsserver.
NextWire ==
    \/ Initialize
    \/ \E f \in LoopFiles : Room(MaxWireSeq, 1) /\ DidOpenTextDocument(f, LoopText, 1)
    \/ Room(MaxWireSeq, 1) /\ DebounceFire
    \/ Tick
    \/ \E m \in WireLines : ProcessMessage(m)
    \/ RunMicrotask

SpecWire == InitWire /\ [][NextWire]_vars

\* The transport with a child process that may exit.  While it runs, the
\* child answers what it has read (weak fairness of Answer) and the event
\* loop runs the queued continuations.
NextExit ==
    \/ Initialize
    \/ \E f \in LoopFiles : Room(MaxSeq, 1) /\ Hover(f, Pos(0, 0))
    \/ \E m \in Messages : ProcessMessage(m)
    \/ ChildExit

SpecExit == Init /\ [][NextExit]_vars /\ WF_vars(Answer) /\ WF_vars(Initialize)

\* The editor's document notifications alone, over two files and the edits
\* below; tsserver stays silent.
NextDocs ==
    \/ Initialize
    \/ \E f \in Files, p \in OpenParams :
           Room(MaxSeq, 1) /\ DidOpenTextDocument(f, p.text, p.version)
    \/ \E f \in Files, p \in ChangeParams :
           /\ Room(MaxSeq, ChangeWrites(f, p.isNull, p.contentChanges))
           /\ DidChangeTextDocument(f, p.version, p.isNull, p.contentChanges)
    \/ \E f \in Files : Room(MaxSeq, CloseWrites(f)) /\ DidCloseTextDocument(f)
    \/ Room(MaxSeq, Len(files)) /\ CloseAll

SpecDocs == Init /\ [][NextDocs]_vars

\* The documents' life cycle over a longer session: two files are opened,
\* edited, closed and opened again.
NextLife ==
    \/ Initialize
    \/ \E f \in Files : Room(MaxLifeSeq, 1) /\ DidOpenTextDocument(f, LoopText, 1)
    \/ \E f \in Files, p \in LifeParams :
           /\ Room(MaxLifeSeq, ChangeWrites(f, p.isNull, p.contentChanges))
           /\ DidChangeTextDocument(f, p.version, p.isNull, p.contentChanges)
    \/ \E f \in Files : Room(MaxLifeSeq, CloseWrites(f)) /\ DidCloseTextDocument(f)
    \/ Room(MaxLifeSeq, Len(files)) /\ CloseAll

SpecLife == Init /\ [][NextLife]_vars

\* The commands an executeCommand may name: the ones the server knows of, and
\* one it does not.
Commands ==
    { "_typescript.applyWorkspaceEdit", "_typescript.applyCodeAction",
      "_typescript.applyRefactoring", "_typescript.organizeImports",
      "_typescript.applyRenameFile", "_typescript.applyCompletionCodeAction",
      "_typescript.other" }

\* The code actions of applyCodeAction: file edits and attached commands.
CodeActions == { [changes |-> n, commands |-> k] : n \in 0..1, k \in 0..MaxCommands }

\* What tsserver answers to the request a handler awaits: a failure, or a
\* success without a body, with a body that holds nothing, or with a body
\* that holds edits, with or without a rename location.
Replies ==
    { [type |-> "response", event |-> "", request_seq |-> promises[c.awaits].seq,
       success |-> b.present \/ b.message = "", body |-> b] :
          c \in { lspCalls[k] : k \in { x \in 1..Len(lspCalls) :
                                            lspCalls[x].pc # "" /\ lspCalls[x].awaits # 0 } },
          b \in { NoBody, [NoBody EXCEPT !.message = "Error"],
                   [NoBody EXCEPT !.present = TRUE],
                   [NoBody EXCEPT !.present = TRUE, !.edits = 1],
                   [NoBody EXCEPT !.present = TRUE, !.edits = 1, !.renameLocation = TRUE] } }

\* The read requests: every read, answered by tsserver.
NextReadCalls ==
    \/ Initialize
    \/ \E f \in LoopFiles : Room(MaxCallSeq, 1) /\ DidOpenTextDocument(f, LoopText, 1)
    \/ \E m \in ReadMethods, f \in LoopFiles :
           /\ Room(MaxCallSeq, 1) /\ Len(lspCalls) < MaxCalls
           /\ Read(m, f, Pos(0, 0))
    \/ \E m \in Replies : ProcessMessage(m)
    \/ Room(MaxCallSeq, 1) /\ RunMicrotask

SpecReadCalls == Init /\ [][NextReadCalls]_vars

\* The requests that change the workspace: rename and executeCommand,
\* answered by tsserver and by the client.
NextCommands ==
    \/ Initialize
    \/ \E f \in LoopFiles :
           /\ Room(MaxCallSeq, 1) /\ Len(lspCalls) < MaxCalls
           /\ Rename(f, Pos(0, 0))
    \/ \E command \in Commands, hasArguments \in BOOLEAN, arg \in CodeActions :
           /\ Room(MaxCallSeq, 1) /\ Len(lspCalls) < MaxCalls
           /\ ExecuteCommand(command, hasArguments, arg)
    \/ \E m \in Replies : ProcessMessage(m)
    \/ Room(MaxCallSeq, 1) /\ RunMicrotask
    \/ \E applied \in BOOLEAN : Room(MaxCallSeq, 1) /\ ClientAnswer(applied)

SpecCommands == Init /\ [][NextCommands]_vars

\* Completion: a document of two lines, the cursor on either line; tsserver
\* answers completionInfo with one or two entries, whose replacement span,
\* where there is one, contains the cursor, on one line or across the line
\* break.
CompletionText == <<"a", NL, "b">>
CompletionPositions == { Pos(0, 1), Pos(1, 1) }

Location(l, o) == [line |-> l, offset |-> o]
Span(a, b) == [start |-> a, end |-> b]

\* The spans tsserver may send for a cursor: they contain the cursor.
Spans(position) ==
    { sp \in { Span(Location(1, 1), Location(1, 2)), Span(Location(2, 1), Location(2, 2)),
               Span(Location(1, 1), Location(2, 2)) } :
         LET cursor == Location(position.line + 1, position.character + 1)
             Before(a, b) == a.line < b.line \/ (a.line = b.line /\ a.offset <= b.offset)
         IN  Before(sp.start, cursor) /\ Before(cursor, sp.end) }

Entry(source, insertText, kindModifiers, hasReplacementSpan, replacementSpan) ==
    [ name |-> "x", source |-> source, insertText |-> insertText,
      kindModifiers |-> kindModifiers, hasReplacementSpan |-> hasReplacementSpan,
      replacementSpan |-> replacementSpan ]

\* Entries: a plain name; an auto-import; with a span, an entry with insert
\* text, one without, and an optional member without.
Entries(position) ==
    { Entry("", "", {}, FALSE, NoSpan), Entry("m", "t", {}, FALSE, NoSpan) }
    \cup
    UNION { { Entry("m", "t", {}, TRUE, sp), Entry("", "", {}, TRUE, sp),
              Entry("", "", {"optional"}, TRUE, sp) } : sp \in Spans(position) }

EntryLists(position) ==
    { << >> } \cup { <<e>> : e \in Entries(position) }
    \cup { << Entry("", "", {}, FALSE, NoSpan), Entry("m", "t", {}, FALSE, NoSpan) >> }

\* What tsserver answers to the request a completion or a resolve awaits.
CompletionReplies ==
    UNION { { [type |-> "response", event |-> "", request_seq |-> promises[c.awaits].seq,
               success |-> b.present \/ b.message = "", body |-> b] :
                 b \in { NoBody, [NoBody EXCEPT !.message = "Error"],
                          [NoBody EXCEPT !.message = "No content available."] }
                        \cup
                        IF c.method = "completion"
                        THEN { [NoBody EXCEPT !.present = TRUE, !.entries = es] :
                                   es \in EntryLists(c.position) }
                        ELSE { [NoBody EXCEPT !.present = TRUE] } } :
            c \in { lspCalls[k] : k \in { x \in 1..Len(lspCalls) :
                                              lspCalls[x].pc # "" /\ lspCalls[x].awaits # 0 } } }

NextCompletion ==
    \/ Initialize
    \/ \E f \in LoopFiles : Room(MaxCallSeq, 1) /\ DidOpenTextDocument(f, CompletionText, 1)
    \/ \E f \in LoopFiles, position \in CompletionPositions :
           /\ Room(MaxCallSeq, 1) /\ Len(lspCalls) < MaxCalls
           /\ Cardinality({k \in 1..Len(lspCalls) : lspCalls[k].method = "completion"})
                  < MaxCompletions
           /\ Completion(f, position)
    \/ \E origin \in 1..MaxCalls, index \in 1..2 :
           /\ Room(MaxCallSeq, 1) /\ Len(lspCalls) < MaxCalls
           /\ CompletionResolve(origin, index)
    \/ \E m \in CompletionReplies : ProcessMessage(m)
    \/ Room(MaxCallSeq, 1) /\ RunMicrotask

SpecCompletion == Init /\ [][NextCompletion]_vars

\* The details of a completionEntryDetails response: code actions that edit
\* the item's file f1, another file, both or none, with a commands property
\* that is absent, empty or not.
TextChange(l, newText) ==
    [start |-> Location(l, 1), end |-> Location(l, 2), newText |-> newText]
FileCodeEdits(fileName, textChanges) == [fileName |-> fileName, textChanges |-> textChanges]
CodeAction(present, list, changes) ==
    [commands |-> [present |-> present, list |-> list], changes |-> changes]

CodeActionLists ==
    LET own == FileCodeEdits("f1", <<TextChange(1, "p")>>)
        own2 == FileCodeEdits("f1", <<TextChange(1, "p"), TextChange(2, "q")>>)
        other == FileCodeEdits("f2", <<TextChange(1, "p")>>)
    IN  { << >>,
          << CodeAction(FALSE, << >>, <<own>>) >>,
          << CodeAction(FALSE, << >>, <<other>>) >>,
          << CodeAction(FALSE, << >>, <<own2, other, own>>) >>,
          << CodeAction(TRUE, << >>, <<own>>) >>,
          << CodeAction(TRUE, <<1>>, << >>) >>,
          << CodeAction(FALSE, << >>, <<own>>), CodeAction(FALSE, << >>, <<other, own2>>) >>,
          << CodeAction(FALSE, << >>, <<own2>>), CodeAction(TRUE, <<1>>, <<own>>) >> }

\* What tsserver answers in a session of resolves: to completionInfo a
\* failure or two entries, to completionEntryDetails a failure, nothing, or details.
ResolveReplies ==
    UNION { { [type |-> "response", event |-> "", request_seq |-> promises[c.awaits].seq,
               success |-> b.present \/ b.message = "", body |-> b] :
                 b \in IF c.method = "completion"
                        THEN { [NoBody EXCEPT !.message = "No content available."],
                               [NoBody EXCEPT !.present = TRUE,
                                              !.entries = << Entry("", "", {}, FALSE, NoSpan),
                                                             Entry("m", "t", {}, FALSE, NoSpan) >>] }
                        ELSE { [NoBody EXCEPT !.message = "Error"],
                               [NoBody EXCEPT !.present = TRUE] }
                             \cup { [NoBody EXCEPT !.present = TRUE,
                                                   !.details = << [codeActions |-> as] >>] :
                                        as \in CodeActionLists } } :
            c \in { lspCalls[k] : k \in { x \in 1..Len(lspCalls) :
                                              lspCalls[x].pc # "" /\ lspCalls[x].awaits # 0 } } }

NextResolve ==
    \/ Initialize
    \/ \E f \in LoopFiles : Room(MaxCallSeq, 1) /\ DidOpenTextDocument(f, CompletionText, 1)
    \/ \E f \in LoopFiles, position \in CompletionPositions :
           /\ Room(MaxCallSeq, 1) /\ Len(lspCalls) < MaxCalls
           /\ Cardinality({k \in 1..Len(lspCalls) : lspCalls[k].method = "completion"})
                  < MaxCompletions
           /\ Completion(f, position)
    \/ \E origin \in 1..MaxCalls, index \in 1..2 :
           /\ Room(MaxCallSeq, 1) /\ Len(lspCalls) < MaxCalls
           /\ CompletionResolve(origin, index)
    \/ \E m \in ResolveReplies : ProcessMessage(m)
    \/ RunMicrotask

SpecResolve == Init /\ [][NextResolve]_vars

\* Member completions: a document whose lines end with a dot accessor, hold
\* a private name or two words, the cursor after the first, second or third
\* character; tsserver answers with a plain entry and one that replaces the
\* character before the cursor by an optional chain, with private names, or
\* with a 'this.' and a bracket accessor, as a member completion or not.
MemberTexts ==
    { <<"a", ".">>, <<"a", "?", ".">>, <<".", NL, "#">>, <<"a", " ", "b">> }
MemberPositions == { Pos(0, 1), Pos(0, 2), Pos(0, 3), Pos(1, 1) }

MemberEntryLists(position) ==
    { << Entry("", "", {}, FALSE, NoSpan),
         Entry("", "?.x", {}, TRUE,
               Span(Location(position.line + 1, position.character),
                    Location(position.line + 1, position.character + 1))) >>,
      << [Entry("", "", {}, FALSE, NoSpan) EXCEPT !.name = "#p"],
         [Entry("", "this.#p", {}, FALSE, NoSpan) EXCEPT !.name = "#p"] >>,
      << Entry("", "this.x", {}, FALSE, NoSpan),
         Entry("", "['a']", {"optional"}, FALSE, NoSpan) >> }

MemberReplies ==
    UNION { { [type |-> "response", event |-> "", request_seq |-> promises[c.awaits].seq,
               success |-> b.present \/ b.message = "", body |-> b] :
                 b \in { [NoBody EXCEPT !.message = "No content available."] }
                       \cup { [NoBody EXCEPT !.present = TRUE, !.entries = es,
                                             !.isMemberCompletion = member] :
                                  es \in MemberEntryLists(c.position),
                                  member \in BOOLEAN } } :
            c \in { lspCalls[k] : k \in { x \in 1..Len(lspCalls) :
                                              lspCalls[x].pc # "" /\ lspCalls[x].awaits # 0 } } }

NextMember ==
    \/ Initialize
    \/ \E f \in LoopFiles, text \in MemberTexts :
           Room(MaxCallSeq, 1) /\ DidOpenTextDocument(f, text, 1)
    \/ \E f \in LoopFiles, position \in MemberPositions :
           /\ Room(MaxCallSeq, 1) /\ Len(lspCalls) < MaxCalls
           /\ Cardinality({k \in 1..Len(lspCalls) : lspCalls[k].method = "completion"})
                  < MaxCompletions
           /\ Completion(f, position)
    \/ \E m \in MemberReplies : ProcessMessage(m)
    \/ RunMicrotask

SpecMember == Init /\ [][NextMember]_vars

\* The diagnostic events of tsserver: for a file and a kind, an empty list or
\* a list of one diagnostic, which is tagged with the number of times the
\* file had been closed when the event arrived.
DiagnosticLines ==
    { [type |-> "event", event |-> k, request_seq |-> 0, success |-> TRUE,
       body |-> [NoBody EXCEPT !.present = TRUE, !.file = f, !.diagnostics = d]] :
          k \in DiagnosticKinds, f \in LoopFiles,
          d \in { << >> } \cup { << [era |-> emptyPublishes[g]] >> : g \in LoopFiles } }

\* The publication of diagnostics: a file is opened and closed while
\* tsserver sends diagnostic events for it.
NextDiag ==
    \/ Initialize
    \/ \E f \in LoopFiles : Room(MaxDiagSeq, 1) /\ DidOpenTextDocument(f, LoopText, 1)
    \/ \E f \in LoopFiles : Room(MaxDiagSeq, CloseWrites(f)) /\ DidCloseTextDocument(f)
    \/ \E m \in DiagnosticLines : ProcessMessage(m)

SpecDiag == Init /\ [][NextDiag]_vars

\* didChange parameters that look a path up and change no text: a null
\* version, and an empty list of content changes.
OrderParams ==
    { [version |-> 0, isNull |-> TRUE, contentChanges |-> << Full(<<"b">>) >>],
      [version |-> 2, isNull |-> FALSE, contentChanges |-> << >>] }

\* The access order of the mirror: three paths are opened, looked up by
\* didChange and closed.
NextOrder ==
    \/ Initialize
    \/ \E f \in Paths : Room(MaxOrderSeq, 1) /\ DidOpenTextDocument(f, LoopText, 1)
    \/ \E f \in Paths, p \in OrderParams :
           DidChangeTextDocument(f, p.version, p.isNull, p.contentChanges)
    \/ \E f \in Paths : Room(MaxOrderSeq, CloseWrites(f)) /\ DidCloseTextDocument(f)

SpecOrder == Init /\ [][NextOrder]_vars

\* workspaceSymbol among opens, lookups and closes of two paths.
NextSymbol ==
    \/ Initialize
    \/ \E f \in Files : Room(MaxOrderSeq, 1) /\ DidOpenTextDocument(f, LoopText, 1)
    \/ \E f \in Files, p \in OrderParams :
           DidChangeTextDocument(f, p.version, p.isNull, p.contentChanges)
    \/ \E f \in Files : Room(MaxOrderSeq, CloseWrites(f)) /\ DidCloseTextDocument(f)
    \/ \E f \in Files :
           /\ Room(MaxOrderSeq, 1) /\ Len(lspCalls) < MaxCalls
           /\ Read("workspaceSymbol", f, Pos(0, 0))

SpecSymbol == Init /\ [][NextSymbol]_vars

\* The geterr among opens and closes of two paths: the debounce runs while
\* documents are opened and closed.
NextGeterr ==
    \/ Initialize
    \/ \E f \in Files : Room(MaxReadSeq, 1) /\ DidOpenTextDocument(f, LoopText, 1)
    \/ \E f \in Files : Room(MaxReadSeq, CloseWrites(f)) /\ DidCloseTextDocument(f)
    \/ Room(MaxReadSeq, 1) /\ DebounceFire
    \/ Tick

SpecGeterr == Init /\ [][NextGeterr]_vars

\* ================================================================== claims

\* The lines written by request(), in the order of the calls.
RequestLines(w) == SelectSeq(w, LAMBDA l : ~l.notification)

\* C1: every future returned by TspClient.request settles exactly once: it is
\* eventually resolved or rejected, and resolve/reject never acts a second
\* time on it.
C1_SettlesExactlyOnce ==
    /\ \A i \in 1..MaxSeq :
           (Len(promises) >= i)
               ~> (Len(promises) >= i /\ promises[i].deferred.state # "pending")
    /\ [](\A i \in 1..Len(promises) : promises[i].deferred.calls <= 1)

\* C2: the seq written to tsserver starts at 1 and is strictly increasing from
\* one outbound line to the next (so never reused), requests and notifications
\* alike.
C2_SeqStrictlyIncreasing ==
    /\ Len(wire) >= 1 => wire[1].seq = 1
    /\ \A i \in 1..Len(wire) : \A j \in 1..Len(wire) : i < j => wire[i].seq < wire[j].seq

\* A notification, then a request, then a notification are on the wire.
C2_Witness ==
    \E i \in 1..Len(wire) :
        /\ i + 2 <= Len(wire)
        /\ wire[i].notification /\ ~wire[i + 1].notification /\ wire[i + 2].notification

\* C3: each request's future is settled with the message whose request_seq is
\* the seq written on the wire for that request, once, and with no other
\* message, whatever the order of the replies.
C3_MatchedBySeq ==
    /\ Len(promises) = Len(RequestLines(wire))
    /\ \A id \in 1..Len(promises) :
           LET d == promises[id].deferred
           IN  IF d.state = "pending" THEN d.calls = 0
               ELSE d.calls = 1 /\ d.request_seq = RequestLines(wire)[id].seq

\* A later request is settled while an earlier one still waits.
C3_Witness ==
    \E i \in 1..Len(promises) : \E j \in 1..Len(promises) :
        /\ i < j
        /\ promises[i].deferred.state = "pending"
        /\ promises[j].deferred.state = "rejected"
        /\ \E k \in 1..Len(promises) : promises[k].deferred.state = "resolved"

\* C4: the pending table holds an entry for S exactly when a request (not a
\* notification) with seq S has been sent and no response or requestCompleted
\* event naming S has been processed.
C4_PendingTable == DOMAIN deferreds = RequestSeqs(wire) \ answered

\* Some requests wait, some have been answered, and a reply named a
\* notification's seq.
C4_Witness ==
    /\ DOMAIN deferreds # {}
    /\ answered # {}
    /\ \E i \in 1..Len(wire) : wire[i].notification
    /\ Cardinality(DOMAIN deferreds) + Cardinality(answered) >= 3

\* The geterr requests sent and not yet answered.
OutstandingGeterrs ==
    { k \in DOMAIN deferreds : promises[deferreds[k]].deferred.operation = "geterr" }

\* C5 as stated: at most one geterr is sent and not yet answered.
C5_AtMostOneOutstanding == Cardinality(OutstandingGeterrs) <= 1

\* C5 amended: at most one geterr is sent, not yet answered and not cancelled.
C5_AtMostOneUncancelled ==
    Cardinality({ k \in OutstandingGeterrs : ~promises[deferreds[k]].cancelled }) <= 1

\* Two geterrs wait for their answer, the older one cancelled.
C5_Witness ==
    \E a \in OutstandingGeterrs : \E b \in OutstandingGeterrs :
        /\ a < b
        /\ promises[deferreds[a]].cancelled
        /\ ~promises[deferreds[b]].cancelled
        /\ a \in cancelFiles

\* C6: the mirror's text of every open file is the text given at open with
\* every received content change applied in arrival order.
C6_MirrorText ==
    \A f \in DOMAIN documents : documents[f].text = expectedText[f]

\* Two edits with a range, sent in one didChange, have rewritten an open
\* file's text.
C6_Witness ==
    \E f \in DOMAIN documents :
        /\ documents[f].text = <<"c", NL>>
        /\ documents[f].version = 2
        /\ wire[Len(wire)].command = "change"
        /\ wire[Len(wire)].cause.j = 2

\* The lines about a file that open or close it.
IsOpenOf(l, f) == l.notification /\ l.command = "open" /\ l.arguments.file = f
IsCloseOf(l, f) == l.notification /\ l.command = "close" /\ l.arguments.file = f

\* The files tsserver has been sent an open for, with no close after it.
TsOpen(w) ==
    { f \in Files :
        \E i \in 1..Len(w) :
            /\ IsOpenOf(w[i], f)
            /\ \A j \in (i + 1)..Len(w) : ~IsCloseOf(w[j], f) }

\* C7: the paths open in the mirror are the files sent an open not yet
\* followed by a close; no open is sent for a file that is open, and no close
\* for a file that is not.
C7_OpenSetsAgree ==
    /\ DOMAIN documents = TsOpen(wire)
    /\ \A f \in Files : \A i \in 1..Len(wire) :
           /\ IsOpenOf(wire[i], f) => f \notin TsOpen(SubSeq(wire, 1, i - 1))
           /\ IsCloseOf(wire[i], f) => f \in TsOpen(SubSeq(wire, 1, i - 1))

\* A file was opened, closed and opened again while the other one is closed.
C7_Witness ==
    /\ DOMAIN documents = {"f1"}
    /\ \E i \in 1..Len(wire) : \E j \in 1..Len(wire) : \E k \in 1..Len(wire) :
           /\ i < j /\ j < k
           /\ IsOpenOf(wire[i], "f1") /\ IsCloseOf(wire[j], "f1") /\ IsOpenOf(wire[k], "f1")
    /\ \E i \in 1..Len(wire) : IsCloseOf(wire[i], "f2")

\* The lines a didOpen, didChange or didClose caused.
Caused(l) == l.cause.n > 0

\* C8: for each file, the open, change and close lines on the wire are in the
\* order of the notifications that caused them, and the lines of one didChange
\* in the order of its content changes.
C8_WireOrder ==
    \A i \in 1..Len(wire) : \A j \in 1..Len(wire) :
        (/\ i < j
         /\ Caused(wire[i]) /\ Caused(wire[j])
         /\ wire[i].arguments.file = wire[j].arguments.file)
            => \/ wire[i].cause.n < wire[j].cause.n
               \/ /\ wire[i].cause.n = wire[j].cause.n
                  /\ wire[i].cause.j < wire[j].cause.j

\* One didChange wrote two different change lines for a file that was opened
\* before and is closed after.
C8_Witness ==
    \E i \in 1..Len(wire) :
        /\ i >= 2 /\ i + 2 <= Len(wire)
        /\ wire[i - 1].command = "open"
        /\ wire[i].command = "change" /\ wire[i + 1].command = "change"
        /\ wire[i].cause.n = wire[i + 1].cause.n
        /\ wire[i].arguments # wire[i + 1].arguments
        /\ wire[i + 2].command = "close"
        /\ \A k \in (i - 1)..(i + 2) : wire[k].arguments.file = "f1"

\* C9 as stated: after every didClose(file) the client has received an empty
\* publishDiagnostics for the file.
C9_EmptyPublishAfterClose ==
    \A f \in Files : lastDidClose[f].seen => emptyPublishes[f] > lastDidClose[f].mark

\* C9 amended: after every didClose of a file that is open in the mirror the
\* client has received an empty publishDiagnostics for the file.
C9_EmptyPublishAfterCloseOfOpen ==
    \A f \in Files :
        (lastDidClose[f].seen /\ lastDidClose[f].wasOpen)
            => emptyPublishes[f] > lastDidClose[f].mark

\* An open file was closed a second time round and the client was told.
C9_Witness ==
    \E f \in Files :
        /\ lastDidClose[f].seen /\ lastDidClose[f].wasOpen
        /\ lastDidClose[f].mark >= 1
        /\ emptyPublishes[f] = lastDidClose[f].mark + 1

\* C10: a geterr is sent only when 200 ms have passed since the most recent
\* scheduling call, and the calls of one burst produce one geterr: none while
\* the timer runs, one once it has expired.
C10_Debounced ==
    /\ geterrElapsed \subseteq {DebounceWait}
    /\ burst.geterrs <= 1
    /\ burst.open => (timer.armed <=> burst.geterrs = 0)

\* A burst of several scheduling calls has produced its geterr.
C10_Witness ==
    /\ burst.open /\ burst.calls = 2 /\ burst.geterrs = 1
    /\ geterrElapsed = {DebounceWait}

\* The geterr requests in flight: sent, not answered, not cancelled.
GeterrsInFlight ==
    { id \in 1..Len(promises) :
        /\ promises[id].deferred.operation = "geterr"
        /\ promises[id].deferred.state = "pending"
        /\ ~promises[id].cancelled }

\* The step of a read handler: one line is written, the read's request.
ReadStep ==
    /\ Len(wire') = Len(wire) + 1
    /\ wire'[Len(wire')].command = "quickinfo"

\* C11: a read handled while a geterr is in flight cancels that geterr before
\* it writes its own request and schedules diagnostics anew; a read handled
\* while none is in flight cancels nothing and schedules nothing.
C11_ReadInterrupts ==
    [][ReadStep =>
         IF GeterrsInFlight # {}
         THEN /\ wire'[Len(wire')].uncancelled = {}
              /\ \A id \in GeterrsInFlight :
                     promises'[id].cancelled /\ promises[id].seq \in cancelFiles'
              /\ timer' = [armed |-> TRUE, left |-> DebounceWait]
              /\ elapsed' = 0
         ELSE /\ \A id \in 1..Len(promises) : promises'[id].cancelled = promises[id].cancelled
              /\ cancelFiles' = cancelFiles
              /\ timer' = timer
              /\ elapsed' = elapsed]_vars

\* A read written after a geterr has interrupted it: the geterr is cancelled
\* and still waits, no token source is kept and the debounce timer is armed.
C11_Witness ==
    \E i \in 1..Len(wire) : \E g \in 1..Len(promises) :
        /\ wire[i].command = "quickinfo"
        /\ promises[g].deferred.operation = "geterr"
        /\ promises[g].seq < wire[i].seq
        /\ promises[g].cancelled /\ promises[g].deferred.state = "pending"
        /\ timer.armed /\ diagnosticsTokenSource = 0

\* The step of the debounce timer's callback: one line is written, a geterr.
GeterrStep ==
    /\ Len(wire') = Len(wire) + 1
    /\ wire'[Len(wire')].command = "geterr"

\* The reads still waiting for their response whose handler made the latest
\* scheduling call.
SchedulingReadsPending ==
    { id \in 1..Len(promises) :
        /\ promises[id].seq = burst.after
        /\ promises[id].deferred.operation = "quickinfo"
        /\ promises[id].deferred.state = "pending" }

\* C12: the geterr scheduled by a read that interrupted the diagnostics is
\* never sent before the read's response has arrived.
C12_GeterrAfterReadResponse ==
    [][GeterrStep => SchedulingReadsPending = {}]_vars

\* C13: a request whose token fired while it waited has its cancellation file,
\* named by its own seq, for as long as it waits; once its future has settled,
\* resolved or rejected, the file is gone; no other file is written.
C13_CancellationFile ==
    /\ \A id \in 1..Len(promises) :
           promises[id].cancelled =>
               (promises[id].seq \in cancelFiles
                    <=> promises[id].deferred.state = "pending")
    /\ cancelFiles \subseteq
           { promises[id].seq : id \in { i \in 1..Len(promises) : promises[i].cancelled } }

\* C14: a requestCompleted event naming S resolves the pending entry for S and
\* removes it, and is not handed to onEvent; every other event is handed to
\* onEvent.
C14_RequestCompleted ==
    [][\A m \in WireLines :
          (ProcessMessage(m) /\ isEvent(m)) =>
              IF isRequestCompletedEvent(m)
              THEN /\ forwarded' = forwarded
                   /\ m.request_seq \notin DOMAIN deferreds'
                   /\ m.request_seq \in DOMAIN deferreds =>
                          LET d == promises'[deferreds[m.request_seq]].deferred
                          IN  d.state = "resolved" /\ d.request_seq = m.request_seq
              ELSE m.event \in forwarded' /\ deferreds' = deferreds]_vars

\* The last line was the requestCompleted event of a geterr, which is resolved
\* and gone from the table, and a diagnostics event has been forwarded.
C14_Witness ==
    /\ isRequestCompletedEvent(log.last)
    /\ \E id \in 1..Len(promises) :
           /\ promises[id].seq = log.last.request_seq
           /\ promises[id].deferred.operation = "geterr"
           /\ promises[id].deferred.state = "resolved"
    /\ log.last.request_seq \notin DOMAIN deferreds
    /\ forwarded = {"semanticDiag"}

\* C15: a response for a pending seq rejects the request's future when
\* success is false and resolves it when success is true, with that message,
\* and removes the pending entry.
C15_ResponseSettles ==
    [][\A m \in WireLines :
          (ProcessMessage(m) /\ isResponse(m) /\ m.request_seq \in DOMAIN deferreds) =>
              LET d == promises'[deferreds[m.request_seq]].deferred
              IN  /\ d.state = IF m.success THEN "resolved" ELSE "rejected"
                  /\ d.request_seq = m.request_seq
                  /\ DOMAIN deferreds' = DOMAIN deferreds \ {m.request_seq}]_vars

\* The last line was a failure response, its request is rejected and gone
\* from the table; another request is resolved.
C15_Witness ==
    /\ isResponse(log.last) /\ ~log.last.success
    /\ \E id \in 1..Len(promises) :
           /\ promises[id].seq = log.last.request_seq
           /\ promises[id].deferred.state = "rejected"
    /\ log.last.request_seq \notin DOMAIN deferreds
    /\ \E id \in 1..Len(promises) : promises[id].deferred.state = "resolved"

\* The lines that are no JSON.
Malformed == { m \in WireLines : m.type = "malformed" }

\* C16: a stdout line that is no JSON is dropped: the pending table and the
\* futures are unchanged and no error escapes the line handler.
C16_MalformedLineDropped ==
    [][\A m \in Malformed :
          ProcessMessage(m) => /\ uncaught' = uncaught
                               /\ deferreds' = deferreds
                               /\ promises' = promises]_vars

\* C17: a response or requestCompleted event naming a seq with no pending
\* entry settles no future, leaves the pending table as it is and hands
\* nothing to onEvent.
C17_UnmatchedDropped ==
    [][\A m \in WireLines :
          (/\ ProcessMessage(m)
           /\ isResponse(m) \/ isRequestCompletedEvent(m)
           /\ m.request_seq \notin DOMAIN deferreds)
              => UNCHANGED << promises, deferreds, forwarded, microtasks, cancelFiles >>]_vars

\* The last line was a response naming the seq of a notification, while
\* requests wait and one has been settled.
C17_Witness ==
    /\ isResponse(log.last)
    /\ \E i \in 1..Len(wire) : wire[i].notification /\ wire[i].seq = log.last.request_seq
    /\ DOMAIN deferreds # {}
    /\ \E id \in 1..Len(promises) : promises[id].deferred.state # "pending"
    /\ forwarded = {}

\* C18: a request made after the tsserver child process has exited fails at
\* once: the future request() returns is rejected, not pending.
C18_RequestAfterExitFails ==
    [][(~alive /\ Len(promises') > Len(promises)) =>
          \A id \in (Len(promises) + 1)..Len(promises') :
              promises'[id].deferred.state = "rejected"]_vars

C20_ReopenIsFullChange ==
    [][\A f \in Files : \A p \in OpenParams :
          (f \in DOMAIN documents /\ DidOpenTextDocument(f, p.text, p.version))
          => LET endPos == PosOfChar(documents[f].text, Len(documents[f].text) + 1)
                 l == wire'[Len(wire')]
             IN  /\ Len(wire') = Len(wire) + 1
                 /\ l.notification /\ l.command = "change"
                 /\ l.arguments = [NoArgs EXCEPT !.file = f, !.line = 1, !.offset = 1,
                                                 !.endLine = endPos.line + 1,
                                                 !.endOffset = endPos.character + 1,
                                                 !.text = p.text]
                 /\ documents'[f].text = p.text
                 /\ DOMAIN documents' = DOMAIN documents
                 /\ timer' = [armed |-> TRUE, left |-> DebounceWait]
                 /\ elapsed' = 0]_vars

\* A file opened with two lines has been opened again with one: the last
\* line on the wire replaces both lines by the new text.
C20_Witness ==
    /\ Len(wire) = 4
    /\ \E f \in DOMAIN documents :
           /\ IsOpenOf(wire[3], f) /\ wire[3].arguments.text = <<"a", NL, "b">>
           /\ wire[4].command = "change" /\ wire[4].arguments.file = f
           /\ wire[4].arguments.endLine = 2 /\ wire[4].arguments.endOffset = 2
           /\ wire[4].arguments.text = <<"a">>
           /\ documents[f].text = <<"a">>
    /\ timer.armed

\* C25: a get of an open path leaves it at the front of the access order and
\* keeps the order of the other paths; a get of a path that is not open
\* changes nothing.  (didChange looks its path up with get and, with a null
\* version or no content change, does nothing else to the mirror.)
C25_GetMovesToFront ==
    [][\A f \in Paths : \A p \in OrderParams :
          DidChangeTextDocument(f, p.version, p.isNull, p.contentChanges)
          => /\ documents' = documents
             /\ IF f \in DOMAIN documents
                THEN /\ files'[1] = f
                     /\ Remove(files', f) = Remove(files, f)
                     /\ Len(files') = Len(files)
                ELSE files' = files]_vars

\* f1, f2 and f3 were opened in this order and nothing was closed; f1, the
\* oldest, has been looked up since and stands before f3 and f2.
C25_Witness ==
    /\ Len(wire) = 5
    /\ IsOpenOf(wire[3], "f1") /\ IsOpenOf(wire[4], "f2") /\ IsOpenOf(wire[5], "f3")
    /\ files = <<"f1", "f3", "f2">>

\* C27: over didOpen and didChange notifications, a didOpen of an open file
\* included, the version of a document of the mirror never decreases.
C27_VersionNeverDecreases ==
    [][\A f \in DOMAIN documents \cap DOMAIN documents' :
          documents'[f].version >= documents[f].version]_vars

\* The characters of a text that lie before the 1-based (line, offset).
CharsBefore(text, line, offset) ==
    Cardinality({k \in 1..Len(text) :
                    PosBefore(PosOfChar(text, k), Pos(line - 1, offset - 1))})

\* A change notification applied to a text: the span from line/offset up to
\* endLine/endOffset is replaced by the insert string.
ApplySpan(text, a) ==
    SubSeq(text, 1, CharsBefore(text, a.line, a.offset)) \o a.text
        \o SubSeq(text, CharsBefore(text, a.endLine, a.endOffset) + 1, Len(text))

RECURSIVE ChildText(_, _, _)
\* The buffer tsserver holds for a file after the first i lines of the wire:
\* the content of the last open, with the changes after it applied in order.
ChildText(w, f, i) ==
    IF i = 0 THEN NoText
    ELSE LET l == w[i]
         IN  IF IsOpenOf(l, f) THEN l.arguments.text
             ELSE IF l.notification /\ l.command = "change" /\ l.arguments.file = f
             THEN ApplySpan(ChildText(w, f, i - 1), l.arguments)
             ELSE ChildText(w, f, i - 1)

\* C28: after every didOpen and didChange, the change notifications sent to
\* tsserver, applied in order to the content sent in the open, give the text
\* the mirror holds for the file.
C28_ChildViewIsMirror ==
    \A f \in DOMAIN documents : ChildText(wire, f, Len(wire)) = documents[f].text

\* A file opened with two lines has lost its line break to a change with a
\* range that ends on the second line.
C28_Witness ==
    \E f \in DOMAIN documents :
        /\ documents[f].text = <<"a", "b">>
        /\ LET l == wire[Len(wire)]
           IN  /\ l.command = "change" /\ l.arguments.file = f
               /\ l.arguments.line = 1 /\ l.arguments.offset = 2
               /\ l.arguments.endLine = 2 /\ l.arguments.endOffset = 1
               /\ l.arguments.text = << >>

\* C26: the diagnostics published for a file never hold a list that was
\* stored before the file was last closed: an event of one kind arriving
\* after the close does not bring back what the other kinds held before it.
C26_ClosedFileForgetsDiagnostics ==
    \A f \in Paths : \A i \in 1..Len(published[f]) :
        published[f][i].era = emptyPublishes[f]

\* C21: a read whose tsserver request was answered with success=false
\* returns an empty result to the client, never an error (codeAction returns
\* what its other request brought).
C21_ReadsSwallowFailure ==
    \A c \in 1..Len(lspCalls) :
        LET call == lspCalls[c]
        IN  (/\ call.method \in ReadMethods
             /\ call.pc = "" /\ call.awaits # 0
             /\ promises[call.awaits].deferred.state = "rejected")
            => call.outcome = IF call.method = "codeAction" /\ call.changes > 0
                              THEN "value" ELSE "empty"

\* The requests rename and the commands of executeCommand make of tsserver.
MutatingCall(call) ==
    \/ call.method = "rename"
    \/ /\ call.method = "executeCommand" /\ call.hasArguments
       /\ call.command \in { "_typescript.applyCodeAction", "_typescript.applyRefactoring",
                              "_typescript.organizeImports", "_typescript.applyRenameFile" }

\* C22: when tsserver answers success=false to a request made by rename or
\* by a command of executeCommand, the LSP request fails with an error, and
\* a command does not report success while a request of its own is pending.
C22_CommandsSurfaceFailure ==
    \A c \in 1..Len(lspCalls) :
        LET call == lspCalls[c]
        IN  (MutatingCall(call) /\ call.awaits # 0)
            => /\ (call.pc = "" /\ promises[call.awaits].deferred.state = "rejected")
                      => call.outcome = "error"
               /\ promises[call.awaits].deferred.state = "pending"
                      => call.outcome = "pending"

\* The six commands of the specification.
SixCommands ==
    { "_typescript.applyWorkspaceEdit", "_typescript.applyCodeAction",
      "_typescript.applyRefactoring", "_typescript.organizeImports",
      "_typescript.applyRenameFile", "_typescript.applyCompletionCodeAction" }

\* C23: the commands the initialize result declares are the six, and
\* executeCommand takes a branch other than 'Unknown command' for each of
\* them and for nothing else.
C23_SixCommands ==
    started =>
        /\ executeCommandProvider = SixCommands
        /\ \A c \in 1..Len(lspCalls) :
               (lspCalls[c].method = "executeCommand" /\ lspCalls[c].hasArguments)
               => (lspCalls[c].branch # "Unknown command"
                      <=> lspCalls[c].command \in SixCommands)

\* The applyCodeActionCommand requests of call c, in the order of the wire.
CommandLines(c) ==
    SelectSeq(wire, LAMBDA l : /\ l.command = "applyCodeActionCommand"
                               /\ l.cause.call = c)

\* The client has refused an edit of call c.
Refused(c) ==
    \E k \in 1..Len(clientRequests) :
        /\ clientRequests[k].call = c
        /\ clientRequests[k].answered /\ ~clientRequests[k].applied

\* C24: applyCodeAction requests the action's commands one by one in list
\* order, each after the one before has been answered, and has requested
\* them all when it returns, whatever the action's changes, unless the
\* client refuses the edit.
C24_CommandsFollowEdit ==
    \A c \in 1..Len(lspCalls) :
        LET call == lspCalls[c]
            lines == CommandLines(c)
        IN  (call.branch = "_typescript.applyCodeAction" /\ call.commands > 0)
            => /\ \A i \in 1..Len(lines) : lines[i].arguments.command = i
               /\ \A i \in 1..(Len(lines) - 1) : lines[i].seq \notin DOMAIN deferreds
               /\ (call.outcome = "value" /\ ~Refused(c)) => Len(lines) = call.commands

\* p is at or before q.
AtOrBefore(p, q) == p = q \/ PosBefore(p, q)

\* C29: the text edit of a completion item made from an entry with a
\* replacement span has a range that lies on one line and contains the
\* position of the completion request.
C29_RangeOnCursorLine ==
    \A c \in 1..Len(lspCalls) :
        (lspCalls[c].method = "completion" /\ lspCalls[c].outcome = "value")
        => \A i \in 1..Len(lspCalls[c].items) :
               LET item == lspCalls[c].items[i]
                   entry == promises[lspCalls[c].awaits].deferred.body.entries[i]
                   range == item.textEdit.range
               IN  (entry.hasReplacementSpan /\ item.hasTextEdit)
                   => /\ range.start.line = range.end.line
                      /\ AtOrBefore(range.start, lspCalls[c].position)
                      /\ AtOrBefore(lspCalls[c].position, range.end)

\* The completionEntryDetails requests on the wire.
ResolveLines == SelectSeq(wire, LAMBDA l : l.command = "completionEntryDetails")

\* C30: the arguments of the completionEntryDetails request of a resolve
\* are the file and the position, one-based, of the completion request that
\* returned the item, and the name of the item's entry, with its source
\* where the entry has one.
C30_ResolveSendsData ==
    \A k \in 1..Len(ResolveLines) :
        LET call == lspCalls[ResolveLines[k].cause.call]
            asked == lspCalls[call.origin]
            entry == promises[asked.awaits].deferred.body.entries[call.index]
        IN  ResolveLines[k].arguments =
                [NoArgs EXCEPT !.file = asked.file,
                               !.line = asked.position.line + 1,
                               !.offset = asked.position.character + 1,
                               !.entryNames =
                                   << [plain |-> entry.source = "", name |-> entry.name,
                                       source |-> entry.source] >>]

C30_Witness ==
    \E k \in 1..Len(ResolveLines) :
        LET call == lspCalls[ResolveLines[k].cause.call]
        IN  /\ call.index = 2
            /\ lspCalls[call.origin].position = Pos(1, 1)
            /\ ~ResolveLines[k].arguments.entryNames[1].plain

\* The completion calls that have ended after tsserver failed their request.
FailedCompletions ==
    { c \in 1..Len(lspCalls) :
          /\ lspCalls[c].method = "completion"
          /\ lspCalls[c].pc = "" /\ lspCalls[c].awaits # 0
          /\ promises[lspCalls[c].awaits].deferred.state = "rejected" }

\* C35: a completion whose completionInfo request tsserver fails with the
\* message 'No content available.' returns null; with any other message it
\* fails with the error.
C35_NoContentIsNull ==
    \A c \in FailedCompletions :
        lspCalls[c].outcome =
            IF promises[lspCalls[c].awaits].deferred.body.message = "No content available."
            THEN "empty" ELSE "error"

C35_Witness ==
    \E c \in FailedCompletions :
        /\ promises[lspCalls[c].awaits].deferred.body.message = "No content available."
        /\ lspCalls[c].outcome = "empty"

\* C39: the access order lists every path of the document map once and
\* nothing else.
C39_OrderListsTheMap ==
    /\ Len(files) = Cardinality(DOMAIN documents)
    /\ { files[i] : i \in 1..Len(files) } = DOMAIN documents

\* Three paths were opened, the oldest was looked up, and f3 was closed.
C39_Witness ==
    /\ files = <<"f1", "f2">>
    /\ \E i \in 1..Len(wire) : IsCloseOf(wire[i], "f3")
    /\ \E i, j \in 1..Len(wire) : i < j /\ IsOpenOf(wire[i], "f1") /\ IsOpenOf(wire[j], "f2")

\* C37: the navto request of workspaceSymbol names the open path that was
\* opened or found by get last, and the workspace root when no path is open.
C37_NavtoNamesLastAccessed ==
    [][\A f \in Files :
          Read("workspaceSymbol", f, Pos(0, 0))
          => /\ Len(wire') = Len(wire) + 1
             /\ wire'[Len(wire')].command = "navto"
             /\ wire'[Len(wire')].arguments.file =
                    IF accessed = << >> THEN "rootPath" ELSE accessed[1]]_vars

\* f1 was opened before f2 and looked up after; the navto that follows
\* names f1.
C37_Witness ==
    /\ \E i, j \in 1..Len(wire) : i < j /\ IsOpenOf(wire[i], "f1") /\ IsOpenOf(wire[j], "f2")
    /\ DOMAIN documents = {"f1", "f2"}
    /\ wire[Len(wire)].command = "navto"
    /\ wire[Len(wire)].arguments.file = "f1"

\* The elements of a list.
Elements(list) == { list[i] : i \in 1..Len(list) }

\* C38: the files of a geterr are the documents open when the request is
\* sent, each listed once.
C38_GeterrListsOpenFiles ==
    [][DebounceFire
          => /\ Len(wire') = Len(wire) + 1
             /\ wire'[Len(wire')].command = "geterr"
             /\ Elements(wire'[Len(wire')].arguments.files) = DOMAIN documents
             /\ Len(wire'[Len(wire')].arguments.files) = Cardinality(DOMAIN documents)]_vars

\* f1 and f2 were opened and f1 was closed before the first geterr was sent:
\* the geterr lists f2 alone.
C38_Witness ==
    /\ \E i, j, k \in 1..Len(wire) :
           /\ i < j /\ j < k
           /\ IsOpenOf(wire[i], "f1") /\ IsOpenOf(wire[j], "f2") /\ IsCloseOf(wire[k], "f1")
    /\ Cardinality({ i \in 1..Len(wire) : wire[i].command = "geterr" }) = 1
    /\ wire[Len(wire)].command = "geterr"
    /\ wire[Len(wire)].arguments.files = <<"f2">>

\* The promise of the geterr sent last, 0 when none was sent.
LastGeterr(ps) ==
    LET ids == { i \in 1..Len(ps) : ps[i].deferred.operation = "geterr" }
    IN  IF ids = {} THEN 0 ELSE CHOOSE i \in ids : \A j \in ids : ps[j].seq <= ps[i].seq

\* C40: a token source that is set is the one of the geterr sent last, which
\* is not cancelled; the continuation of a geterr that has settled clears the
\* token source only when it holds that geterr's own; and no cancellation
\* file is written for a request whose reply has been processed.
C40_TokenOfLastGeterr ==
    [][/\ diagnosticsTokenSource' # 0
           => /\ diagnosticsTokenSource' = LastGeterr(promises')
              /\ ~promises'[diagnosticsTokenSource'].cancelled
       /\ (RunMicrotask /\ diagnosticsTokenSource # Head(microtasks))
           => diagnosticsTokenSource' = diagnosticsTokenSource
       /\ \A k \in cancelFiles' \ cancelFiles : k \notin answered]_vars

\* An older geterr, cancelled, has settled and its continuation has run; the
\* token source still holds the geterr sent after it.
C40_Witness ==
    \E a, b \in 1..Len(promises) :
        /\ a < b
        /\ promises[a].deferred.operation = "geterr" /\ promises[a].cancelled
        /\ promises[a].deferred.state # "pending"
        /\ promises[b].deferred.operation = "geterr"
        /\ promises[b].deferred.state = "pending"
        /\ diagnosticsTokenSource = b
        /\ microtasks = << >>

\* The geterrs tsserver has failed and whose continuation has run.
FailedGeterrs ==
    { id \in 1..Len(promises) :
          /\ promises[id].deferred.operation = "geterr"
          /\ promises[id].deferred.state = "rejected"
          /\ \A k \in 1..Len(microtasks) : microtasks[k] # id }

\* C36: after a geterr has failed the token source does not hold it, no
\* error has escaped a handler and no rejection is left without a handler.
C36_GeterrFailureIsSwallowed ==
    \A id \in FailedGeterrs :
        /\ diagnosticsTokenSource # id
        /\ ~uncaught
        /\ \A u \in unhandled : u.promise # id

\* How often x occurs in a list.
Count(list, x) == Cardinality({ i \in 1..Len(list) : list[i] = x })

\* The text changes the code actions hold for the file, or for the other
\* files, in order.
ChangesFor(actions, file, own) ==
    Flatten([i \in 1..Len(actions) |->
                Flatten([j \in 1..Len(actions[i].changes) |->
                            IF (actions[i].changes[j].fileName = file) = own
                            THEN actions[i].changes[j].textChanges ELSE << >>])])

\* The resolves that have returned an item made with details.
Resolved ==
    { c \in 1..Len(lspCalls) :
          /\ lspCalls[c].method = "completionResolve" /\ lspCalls[c].outcome = "value"
          /\ promises[lspCalls[c].awaits].deferred.body.details # << >> }

DetailsOf(c) == promises[lspCalls[c].awaits].deferred.body.details[1]

\* C31: every text change of the code actions for the item's file is among
\* the additional text edits as often as the actions hold it and in no action
\* of the command; every text change for another file is in the actions of
\* the command as often as the actions hold it, and the additional text edits
\* hold nothing else.
C31_EditsAreSplit ==
    \A c \in Resolved :
        LET given == DetailsOf(c).codeActions
            file == lspCalls[c].file
            got == lspCalls[c].items[1].actions
            all == { ChangesFor(given, file, TRUE)[i] :
                         i \in 1..Len(ChangesFor(given, file, TRUE)) }
                   \cup { ChangesFor(given, file, FALSE)[i] :
                         i \in 1..Len(ChangesFor(given, file, FALSE)) }
        IN  /\ Len(got.additionalTextEdits) = Len(ChangesFor(given, file, TRUE))
            /\ \A x \in all :
                   /\ Count(got.additionalTextEdits, toTextEdit(x))
                          = Count(ChangesFor(given, file, TRUE), x)
                   /\ ChangesFor(given, file, FALSE) # << >>
                          => Count(ChangesFor(got.command.actions, file, FALSE), x)
                                = Count(ChangesFor(given, file, FALSE), x)
            /\ ChangesFor(got.command.actions, file, TRUE) = << >>

\* Two actions with edits of the item's file and of another file: three
\* additional text edits and a command with the one edit of the other file.
C31_Witness ==
    \E c \in Resolved :
        /\ Len(DetailsOf(c).codeActions) = 2
        /\ Len(lspCalls[c].items[1].actions.additionalTextEdits) = 3
        /\ lspCalls[c].items[1].actions.hasCommand
        /\ Len(ChangesFor(lspCalls[c].items[1].actions.command.actions,
                          lspCalls[c].file, FALSE)) = 1

\* C32: the resolved item has the command exactly when an action has an
\* edit of another file or a command attached.
C32_CommandWhenSomethingRemains ==
    \A c \in Resolved :
        LET given == DetailsOf(c).codeActions
        IN  lspCalls[c].items[1].actions.hasCommand
            <=> \E i \in 1..Len(given) :
                    \/ given[i].commands.present /\ given[i].commands.list # << >>
                    \/ \E j \in 1..Len(given[i].changes) :
                           given[i].changes[j].fileName # lspCalls[c].file

\* The completions that have returned items, with the document they read.
ReturnedCompletions ==
    { c \in 1..Len(lspCalls) :
          /\ lspCalls[c].method = "completion" /\ lspCalls[c].outcome = "value"
          /\ lspCalls[c].file \in DOMAIN documents }

\* C33: of a member completion with the cursor after '.' or '?.', every item
\* is filtered by the dot accessor's text followed by its insert text or
\* label, and has a range that holds the dot accessor's range.
C33_DotAccessorIsPrefixed ==
    \A c \in ReturnedCompletions :
        LET call == lspCalls[c]
            body == promises[call.awaits].deferred.body
            context == DotAccessorContext(body.isMemberCompletion,
                                          documents[call.file].text, call.position)
        IN  context.present =>
                \A i \in 1..Len(call.items) :
                    LET item == call.items[i]
                        entry == body.entries[i]
                    IN  /\ item.filterText.present
                        /\ item.filterText.text
                               = context.text \o Spelling(IF entry.insertText # ""
                                                           THEN entry.insertText
                                                           ELSE entry.name)
                        /\ item.hasTextEdit
                        /\ AtOrBefore(item.textEdit.range.start, context.range.start)
                        /\ AtOrBefore(context.range.end, item.textEdit.range.end)

\* The line's text without its line break.
LineContent(text, line) ==
    SelectSeq(lineAt(text, line), LAMBDA ch : ch # NL)

\* The maximal run of characters that are no whitespace around a position of
\* a line, nothing where whitespace or the line's ends are on both sides.
WordAround(text, position) ==
    LET content == LineContent(text, position.line)
        Word(from, to) == \A k \in from..(to - 1) : ~IsSpace(charAt(content, k))
        first == CHOOSE s \in 0..position.character :
                     Word(s, position.character)
                     /\ \A r \in 0..(s - 1) : ~Word(r, position.character)
        last == CHOOSE e \in position.character..Len(content) :
                    Word(position.character, e)
                    /\ \A r \in (e + 1)..Len(content) : ~Word(position.character, r)
    IN  [ present |-> first # last,
          range |-> [start |-> [line |-> position.line, character |-> first],
                     end |-> [line |-> position.line, character |-> last]] ]

\* C34: for the cursor of a completion that lies in its document,
\* getWordRangeAtPosition gives the maximal run of characters that are no
\* whitespace around it, and nothing where there is none.
C34_WordIsMaximalRun ==
    \A c \in ReturnedCompletions :
        LET text == documents[lspCalls[c].file].text
            position == lspCalls[c].position
            got == getWordRangeAtPosition(text, position)
            want == WordAround(text, position)
        IN  /\ position.line < lineCount(text)
            /\ position.character <= Len(LineContent(text, position.line))
            => /\ got.present = want.present
               /\ want.present => got.range = want.range

====
